---- MODULE Spec2Model ----
(***************************************************************************)
(* Verification model of the kanban document engine of                     *)
(* mcp-server-obsidian: atomic persistence (utils/file-ops.ts), the path   *)
(* guard (utils/path-validator.ts), the text validators                    *)
(* (utils/input-validator.ts), the document codec (parsers/kanban.ts) and  *)
(* the mutation tools (tools/kanban).                                      *)
(***************************************************************************)
EXTENDS Integers, Sequences, FiniteSets, TLC

VARIABLES
    \* ---- file system and the callers of writeKanbanFile ----
    dir,        \* directory entries: "path" and "tmp" (= path + '.tmp') -> inode or NoIno
    inodeData,  \* inode -> its content, a sequence of chunks
    initial,    \* the content at `path` before any call (Absent when there was no file)
    kind,       \* caller -> "add" (kanbanItemAdd: read, push, write) or "write" (writeKanbanFile alone)
    pc,         \* caller -> position in its handler
    board,      \* caller -> the Board it holds in memory
    fd,         \* caller -> inode of the temp file it has open
    off,        \* caller -> chunks of its serialization written so far
    cause,      \* caller -> the original failure (errno) caught by writeKanbanFile
    cleanup,    \* caller -> outcome of the cleanup unlink
    thrown,     \* caller -> the error the call rejected with
    faults,     \* I/O faults injected by the environment so far
    \* ---- one validateVaultPath call ----
    pvPlatform, \* "posix" or "win32": which node:path implementation the host uses
    pvCwd,      \* process.cwd()
    pvVault,    \* the vaultPath argument, a string (sequence of characters)
    pvTarget,   \* the targetPath argument
    pvResult,   \* pending, or the returned path, or the PathValidationError thrown
    \* ---- serializeKanban followed by parseKanban ----
    cBoard,     \* the Board handed to serializeKanban
    cDoc,       \* the markdown it produced
    cParsed,    \* the Board parseKanban made of that markdown
    cPc,        \* "board", "serialized" or "parsed"
    \* ---- one call of a kanban tool ----
    tDisk,      \* the files of the vault: path -> content (a string) or NoFile
    tBefore,    \* tDisk as it was when the call started
    tResolved,  \* board argument -> what validateVaultPath makes of it
    tTool,      \* the tool called
    tPc,        \* position of the call: idle, write, rename, cleanup, done, failed
    tPath,      \* the path the call writes to
    tBoard,     \* the Board the call holds in memory
    tError,     \* the error the call returned: its stage and message
    tIssued,    \* the writeFile / rename / unlink requests the call has issued
    tSerialized,\* the Boards the call has passed to serializeKanban
    tArgs,      \* the arguments of the call, as the schema hands them to the handler
    tFault,     \* the I/O errors the reads of kanban_merge ran into
    \* ---- one call of a text validator ----
    vText,      \* the string handed to the validators
    vItem,      \* what validateItemText made of it: a value or an error
    vName,      \* what validateColumnName made of it
    \* ---- one tool call while another actor changes the file tree ----
    rTarget,    \* the board argument of the call
    rPc,        \* position of the call: start, validated, read, written, done, failed
    rPath,      \* the path validateVaultPath returned
    rSwap,      \* the directory entry the other actor replaced by a symlink, and its target
    rWhen,      \* rPc at the moment of the replacement
    rTouched    \* the I/O requests of the call and the locations they reached

fsVars == <<dir, inodeData, initial, kind, pc, board, fd, off, cause, cleanup, thrown, faults>>
pathVars == <<pvPlatform, pvCwd, pvVault, pvTarget, pvResult>>
codecVars == <<cBoard, cDoc, cParsed, cPc>>
toolVars ==
    <<tDisk, tBefore, tResolved, tTool, tPc, tPath, tBoard, tError, tIssued, tSerialized, tArgs,
      tFault>>

validatorVars == <<vText, vItem, vName>>
raceVars == <<rTarget, rPc, rPath, rSwap, rWhen, rTouched>>

vars == <<fsVars, pathVars, codecVars, toolVars, validatorVars, raceVars>>

\* What the persistence actions leave alone
nonFsVars == <<pathVars, codecVars, toolVars, validatorVars, raceVars>>
\* What validateVaultPath leaves alone
nonPathVars == <<fsVars, codecVars, toolVars, validatorVars, raceVars>>
\* What the codec leaves alone
nonCodecVars == <<fsVars, pathVars, toolVars, validatorVars, raceVars>>
\* What a tool call leaves alone
nonToolVars == <<fsVars, pathVars, codecVars, validatorVars, raceVars>>
\* What a validator call leaves alone
nonValidatorVars == <<fsVars, pathVars, codecVars, toolVars, raceVars>>
\* What the call racing with the other actor leaves alone
nonRaceVars == <<fsVars, pathVars, codecVars, toolVars, validatorVars>>

(***************************************************************************)
(* Bounds                                                                  *)
(***************************************************************************)
MaxCallers == 2
MaxFaults == 2

Callers == 1..MaxCallers

(***************************************************************************)
(* Abstract boards and their serialization.  A board is the set of         *)
(* changes applied to the original board; its serialization is a sequence  *)
(* of chunks (the units in which writeFile hands data to the OS), one more *)
(* chunk per item added.                                                   *)
(***************************************************************************)
NoIno == 0
None == "none"
\* The mark of a board parsed from a partially written file
Torn == 0
\* A file system lookup: no entry, or the data of the entry's inode
Absent == [exists |-> FALSE, data |-> << >>]
File(data) == [exists |-> TRUE, data |-> data]
\* Bytes that belong to no serialization: zero fill, and a leftover temp file
ZeroChunk == <<{}, 0>>
StaleChunk == <<{Torn}, 0>>

Inodes == 1..(MaxCallers + 3)

SerLen(b) == 1 + Cardinality(b)

\* serializeKanban, on abstract boards: the complete text of board b
serializeChunks(b) == [i \in 1..SerLen(b) |-> <<b, i>>]

BoardValues == SUBSET (Callers \cup {Torn})

IsComplete(c) == \E b \in BoardValues : c = serializeChunks(b)

\* parseKanban, on abstract content: a complete serialization parses to its
\* board, anything else to a board built from whatever lines survived; an
\* empty file parses to a board without columns.
parseChunks(c) ==
    IF IsComplete(c) THEN CHOOSE b \in BoardValues : c = serializeChunks(b)
    ELSE {Torn}
HasColumns(c) == c # << >>

\* What a reader finds at a directory entry
ContentAt(name) == IF dir[name] = NoIno THEN Absent ELSE File(inodeData[dir[name]])

\* An inode no directory entry and no open descriptor refers to
FreshIno == CHOOSE i \in Inodes : i \notin {dir["path"], dir["tmp"]} /\ \A w \in Callers : fd[w] # i

\* const tempPath = `${path}.tmp`
TempPathShared == "path"
tempPath == "tmp"

\* write(fd, chunk) at the descriptor's position pos (0-based); a gap left by a
\* truncation is zero-filled
WriteAt(data, pos, chunk) ==
    [i \in 1..(IF Len(data) > pos + 1 THEN Len(data) ELSE pos + 1) |->
        IF i = pos + 1 THEN chunk
        ELSE IF i <= Len(data) THEN data[i]
        ELSE ZeroChunk]

\* throw new Error(`Failed to write kanban file at ${path}: ${error.message}`)
WriteErrorMasked(path, original, cleanupResult) ==
    [path |-> path,
     message |-> IF cleanupResult \notin {None, "ok"} THEN cleanupResult ELSE original]
WriteError(path, original, cleanupResult) == [path |-> path, message |-> original]

\* throw new Error(`Failed to read kanban file at ${path}: ${error.message}`)
ReadError(path, original) == [path |-> path, message |-> original]

CanFault == faults < MaxFaults

(***************************************************************************)
(* kanbanItemAdd up to its write: validateVaultPath has returned `path`;   *)
(* readKanbanFile reads and parses it, the column is looked up and the     *)
(* item pushed.                                                            *)
(***************************************************************************)
ReadKanbanFile(w) ==
    /\ pc[w] = "start"
    /\ kind[w] = "add"
    /\ \/ /\ ContentAt("path") = Absent
          /\ thrown' = [thrown EXCEPT ![w] = ReadError("path", "ENOENT")]
          /\ pc' = [pc EXCEPT ![w] = "failed"]
          /\ UNCHANGED <<board, faults>>
       \/ /\ ContentAt("path") # Absent
          /\ CanFault
          /\ faults' = faults + 1
          /\ thrown' = [thrown EXCEPT ![w] = ReadError("path", "EACCES")]
          /\ pc' = [pc EXCEPT ![w] = "failed"]
          /\ UNCHANGED board
       \/ /\ ContentAt("path") # Absent
          /\ LET b == parseChunks(ContentAt("path").data) IN
             IF ~HasColumns(ContentAt("path").data)
             THEN /\ thrown' = [thrown EXCEPT ![w] = [path |-> "path", message |-> "Column not found"]]
                  /\ pc' = [pc EXCEPT ![w] = "failed"]
                  /\ UNCHANGED board
             ELSE /\ board' = [board EXCEPT ![w] = b \cup {w}]
                  /\ pc' = [pc EXCEPT ![w] = "ready"]
                  /\ UNCHANGED thrown
          /\ UNCHANGED faults
    /\ UNCHANGED <<dir, inodeData, initial, kind, fd, off, cause, cleanup>>
    /\ UNCHANGED nonFsVars

(***************************************************************************)
(* kanbanCreate up to its write: validateVaultPath has returned `path`;    *)
(* access(path) resolves when the entry exists, and then the call throws;  *)
(* every rejection of access is caught and taken for "no such file".       *)
(***************************************************************************)
AlreadyExists == [path |-> "path", message |-> "Board already exists"]

AccessBoard(w) ==
    /\ pc[w] = "start"
    /\ kind[w] = "create"
    /\ \/ /\ ContentAt("path") # Absent
          /\ thrown' = [thrown EXCEPT ![w] = AlreadyExists]
          /\ pc' = [pc EXCEPT ![w] = "failed"]
          /\ UNCHANGED <<board, faults>>
       \/ /\ ContentAt("path") # Absent
          /\ CanFault
          /\ faults' = faults + 1
          /\ board' = [board EXCEPT ![w] = {w}]
          /\ pc' = [pc EXCEPT ![w] = "ready"]
          /\ UNCHANGED thrown
       \/ /\ ContentAt("path") = Absent
          /\ board' = [board EXCEPT ![w] = {w}]
          /\ pc' = [pc EXCEPT ![w] = "ready"]
          /\ UNCHANGED <<thrown, faults>>
    /\ UNCHANGED <<dir, inodeData, initial, kind, fd, off, cause, cleanup>>
    /\ UNCHANGED nonFsVars

(***************************************************************************)
(* writeKanbanFile, one action per await.                                  *)
(***************************************************************************)
\* writeFile(tempPath, ...) opens the temp file with O_CREAT | O_TRUNC
OpenTemp(w) ==
    /\ pc[w] = "ready"
    /\ \/ /\ CanFault
          /\ faults' = faults + 1
          /\ cause' = [cause EXCEPT ![w] = "EACCES"]
          /\ pc' = [pc EXCEPT ![w] = "cleanup"]
          /\ UNCHANGED <<dir, inodeData, fd, off>>
       \/ /\ LET ino == IF dir[tempPath] = NoIno THEN FreshIno ELSE dir[tempPath] IN
             /\ dir' = [dir EXCEPT ![tempPath] = ino]
             /\ inodeData' = [inodeData EXCEPT ![ino] = << >>]
             /\ fd' = [fd EXCEPT ![w] = ino]
          /\ off' = [off EXCEPT ![w] = 0]
          /\ pc' = [pc EXCEPT ![w] = "writing"]
          /\ UNCHANGED <<cause, faults>>
    /\ UNCHANGED <<initial, kind, board, cleanup, thrown>>
    /\ UNCHANGED nonFsVars

\* writeFile's write loop: one chunk per write(2), then close
WriteChunk(w) ==
    /\ pc[w] = "writing"
    /\ \/ /\ CanFault
          /\ faults' = faults + 1
          /\ cause' = [cause EXCEPT ![w] = "ENOSPC"]
          /\ pc' = [pc EXCEPT ![w] = "cleanup"]
          /\ fd' = [fd EXCEPT ![w] = NoIno]
          /\ UNCHANGED <<inodeData, off>>
       \/ /\ inodeData' = [inodeData EXCEPT ![fd[w]] =
                              WriteAt(@, off[w], serializeChunks(board[w])[off[w] + 1])]
          /\ off' = [off EXCEPT ![w] = @ + 1]
          /\ IF off[w] + 1 = SerLen(board[w])
             THEN /\ pc' = [pc EXCEPT ![w] = "written"]
                  /\ fd' = [fd EXCEPT ![w] = NoIno]
             ELSE UNCHANGED <<pc, fd>>
          /\ UNCHANGED <<cause, faults>>
    /\ UNCHANGED <<dir, initial, kind, board, cleanup, thrown>>
    /\ UNCHANGED nonFsVars

\* rename(tempPath, path)
RenameTemp(w) ==
    /\ pc[w] = "written"
    /\ \/ /\ dir[tempPath] = NoIno
          /\ cause' = [cause EXCEPT ![w] = "ENOENT"]
          /\ pc' = [pc EXCEPT ![w] = "cleanup"]
          /\ UNCHANGED <<dir, faults>>
       \/ /\ dir[tempPath] # NoIno
          /\ CanFault
          /\ faults' = faults + 1
          /\ cause' = [cause EXCEPT ![w] = "EPERM"]
          /\ pc' = [pc EXCEPT ![w] = "cleanup"]
          /\ UNCHANGED dir
       \/ /\ dir[tempPath] # NoIno
          /\ dir' = [n \in DOMAIN dir |->
                        IF n = "path" THEN dir[tempPath]
                        ELSE IF n = tempPath THEN NoIno
                        ELSE dir[n]]
          /\ pc' = [pc EXCEPT ![w] = "done"]
          /\ UNCHANGED <<cause, faults>>
    /\ UNCHANGED <<inodeData, initial, kind, board, fd, off, cleanup, thrown>>
    /\ UNCHANGED nonFsVars

\* catch: unlink(tempPath), ignoring its failure, then rethrow
CleanupAndThrow(w) ==
    /\ pc[w] = "cleanup"
    /\ \/ /\ dir[tempPath] = NoIno
          /\ cleanup' = [cleanup EXCEPT ![w] = "ENOENT"]
          /\ thrown' = [thrown EXCEPT ![w] = WriteError("path", cause[w], "ENOENT")]
          /\ UNCHANGED <<dir, faults>>
       \/ /\ dir[tempPath] # NoIno
          /\ CanFault
          /\ faults' = faults + 1
          /\ cleanup' = [cleanup EXCEPT ![w] = "EBUSY"]
          /\ thrown' = [thrown EXCEPT ![w] = WriteError("path", cause[w], "EBUSY")]
          /\ UNCHANGED dir
       \/ /\ dir[tempPath] # NoIno
          /\ dir' = [dir EXCEPT ![tempPath] = NoIno]
          /\ cleanup' = [cleanup EXCEPT ![w] = "ok"]
          /\ thrown' = [thrown EXCEPT ![w] = WriteError("path", cause[w], "ok")]
          /\ UNCHANGED faults
    /\ pc' = [pc EXCEPT ![w] = "failed"]
    /\ UNCHANGED <<inodeData, initial, kind, board, fd, off, cause>>
    /\ UNCHANGED nonFsVars

\* No validateVaultPath call is in progress
PathIdle ==
    /\ pvPlatform = "posix"
    /\ pvCwd = << >>
    /\ pvVault = << >>
    /\ pvTarget = << >>
    /\ pvResult = [status |-> "idle", path |-> << >>, message |-> None]

\* No codec round trip is in progress
CodecIdle ==
    /\ cBoard = << >>
    /\ cDoc = << >>
    /\ cParsed = << >>
    /\ cPc = "idle"

\* The validator has not been called
NotCalled == [ok |-> FALSE, value |-> << >>, error |-> None]

\* No validator call is in progress
ValidatorsIdle ==
    /\ vText = << >>
    /\ vItem = NotCalled
    /\ vName = NotCalled

\* No directory entry has been replaced
NoSwap == [entry |-> << >>, to |-> << >>]

\* The file tree is the original one and no call races with a change of it
RaceIdle ==
    /\ rTarget = << >>
    /\ rPc = "idle"
    /\ rPath = << >>
    /\ rSwap = NoSwap
    /\ rWhen = None
    /\ rTouched = {}

\* No read of kanban_merge has failed
NoFault == [targetRead |-> FALSE, sourceRead |-> 0]

\* No tool call is in progress
ToolsIdle ==
    /\ tDisk = << >>
    /\ tBefore = << >>
    /\ tResolved = << >>
    /\ tTool = None
    /\ tPc = "off"
    /\ tPath = << >>
    /\ tBoard = << >>
    /\ tError = << >>
    /\ tIssued = {}
    /\ tSerialized = {}
    /\ tArgs = << >>
    /\ tFault = NoFault

(***************************************************************************)
(* Initial states of the persistence model                                 *)
(***************************************************************************)
\* Contents the board file can have before the calls: none, a complete
\* board, or an empty file
InitialContents == {Absent, File(serializeChunks({})), File(<< >>)}
\* A temp file left behind by an earlier crash, or none
StaleTemps == {Absent, File(<<StaleChunk>>)}

FsInit(active) ==
    /\ initial \in InitialContents
    /\ \E stale \in StaleTemps :
          /\ dir = [n \in {"path", "tmp"} |->
                       IF n = "path" THEN (IF initial = Absent THEN NoIno ELSE 1)
                       ELSE (IF stale = Absent THEN NoIno ELSE 2)]
          /\ inodeData = [i \in Inodes |->
                       IF i = 1 /\ initial # Absent THEN initial.data
                       ELSE IF i = 2 /\ stale # Absent THEN stale.data
                       ELSE << >>]
    /\ kind \in [Callers -> {"add", "create", "write"}]
    /\ \A w \in Callers : w \notin active => kind[w] = "write"
    /\ pc = [w \in Callers |->
                IF w \notin active THEN "idle"
                ELSE IF kind[w] \in {"add", "create"} THEN "start" ELSE "ready"]
    /\ board = [w \in Callers |-> IF kind[w] = "write" /\ w \in active THEN {w} ELSE {}]
    /\ fd = [w \in Callers |-> NoIno]
    /\ off = [w \in Callers |-> 0]
    /\ cause = [w \in Callers |-> None]
    /\ cleanup = [w \in Callers |-> None]
    /\ thrown = [w \in Callers |-> None]
    /\ faults = 0

FsStep ==
    \E w \in Callers :
        \/ ReadKanbanFile(w)
        \/ AccessBoard(w)
        \/ OpenTemp(w)
        \/ WriteChunk(w)
        \/ RenameTemp(w)
        \/ CleanupAndThrow(w)

\* One writeKanbanFile call (alone or at the end of kanbanItemAdd or
\* kanbanCreate)
InitWrite == RaceIdle /\ ValidatorsIdle /\ FsInit({1}) /\ PathIdle /\ CodecIdle /\ ToolsIdle
SpecWrite == InitWrite /\ [][FsStep]_vars

\* Concurrent calls against the same board file
InitConc == RaceIdle /\ ValidatorsIdle /\ FsInit(Callers) /\ PathIdle /\ CodecIdle /\ ToolsIdle
SpecConc == InitConc /\ [][FsStep]_vars

(***************************************************************************)
(* Claims about the persistence model                                      *)
(***************************************************************************)
\* The caller holds the board it is going to write
Started(w) == w \in board[w]

\* C1: during one writeKanbanFile call, with the temp-file write or the rename
\* free to fail at any point, the content at `path` is the complete previous
\* content (or absence) until the rename and the complete new serialization
\* after it; a failed call leaves `path` exactly as it was.
C1_SingleWriteAllOrNothing ==
    /\ ContentAt("path") \in {initial, File(serializeChunks(board[1]))}
    /\ pc[1] # "done" => ContentAt("path") = initial
    /\ pc[1] = "done" => ContentAt("path") = File(serializeChunks(board[1]))

\* C1 witness: the call failed after part of the serialization had been
\* written, over an existing board file
C1_Witness ==
    /\ pc[1] = "failed"
    /\ cause[1] = "ENOSPC"
    /\ off[1] >= 1
    /\ initial = File(serializeChunks({}))

\* C8: with concurrent writeKanbanFile calls for one path and no
\* I/O fault, the content at `path` is always the previous content or the
\* complete serialization of one caller's board.
C8_ConcurrentWritesEachAtomic ==
    faults = 0 =>
        ContentAt("path") \in
            {initial} \cup {File(serializeChunks(board[w])) : w \in {c \in Callers : Started(c)}}

\* C9: when mutation requests on one board file interleave and no
\* I/O fault occurs, every request completes without error and the final file
\* is the result computed by one of them.
C9_LastWriterWinsWithoutFailure ==
    (faults = 0 /\ \A w \in Callers : kind[w] = "add" /\ Started(w)) =>
        /\ \A w \in Callers : cause[w] = None /\ pc[w] # "failed"
        /\ (\A w \in Callers : pc[w] = "done") =>
              \E w \in Callers : ContentAt("path") = File(serializeChunks(board[w]))

\* C10: a failed temp-file write or rename is followed by an attempt to delete
\* the temp file and then by an error carrying the original failure's message
\* and the target path, whatever the cleanup's outcome; when the cleanup
\* delete succeeds no temp file remains after the call.
C10_CleanupNeverMasksOriginal ==
    \A w \in Callers :
        /\ cause[w] # None => pc[w] \in {"cleanup", "failed"}
        /\ (pc[w] = "failed" /\ cause[w] # None) =>
              /\ cleanup[w] # None
              /\ thrown[w] = [path |-> "path", message |-> cause[w]]
              /\ cleanup[w] = "ok" => dir["tmp"] = NoIno

\* C10 witness: the write failed, the cleanup delete failed too, and the call
\* has thrown
C10_Witness ==
    /\ pc[1] = "failed"
    /\ cause[1] = "ENOSPC"
    /\ cleanup[1] = "EBUSY"

(***************************************************************************)
(* node:path, on strings held as sequences of characters.  The host is     *)
(* either POSIX (separator "/") or win32 (separators "\" and "/", drive    *)
(* letters).  Unicode NFC normalization is the identity on the ASCII       *)
(* alphabet used here.                                                     *)
(***************************************************************************)
Slash == "/"
Backslash == "\\"
NUL == "NUL"
DriveLetters == {"C", "D"}
Dot == <<".">>
DotDot == <<".", ".">>

\* path.sep
sep(P) == IF P = "win32" THEN Backslash ELSE Slash
Seps(P) == IF P = "win32" THEN {Slash, Backslash} ELSE {Slash}

\* The pieces of s, from position `from` on, between separators (empty
\* pieces included)
RECURSIVE SplitFrom(_, _, _)
SplitFrom(s, seps, from) ==
    IF \E i \in from..Len(s) : s[i] \in seps
    THEN LET i == CHOOSE i \in from..Len(s) :
                      s[i] \in seps /\ \A j \in from..(i - 1) : s[j] \notin seps
         IN  <<SubSeq(s, from, i - 1)>> \o SplitFrom(s, seps, i + 1)
    ELSE <<SubSeq(s, from, Len(s))>>

SplitBy(s, seps) == SplitFrom(s, seps, 1)

RECURSIVE JoinWith(_, _)
JoinWith(comps, c) ==
    IF comps = << >> THEN << >>
    ELSE IF Len(comps) = 1 THEN comps[1]
    ELSE comps[1] \o <<c>> \o JoinWith(Tail(comps), c)

StartsWith(s, prefix) == Len(s) >= Len(prefix) /\ SubSeq(s, 1, Len(prefix)) = prefix

Front(q) == SubSeq(q, 1, Len(q) - 1)

\* The device ("C:") a win32 path starts with, if any
DriveOf(P, s) ==
    IF P = "win32" /\ Len(s) >= 2 /\ s[1] \in DriveLetters /\ s[2] = ":"
    THEN SubSeq(s, 1, 2) ELSE << >>
AfterDrive(P, s) == SubSeq(s, Len(DriveOf(P, s)) + 1, Len(s))
IsRooted(P, s) == LET t == AfterDrive(P, s) IN Len(t) > 0 /\ t[1] \in Seps(P)

\* path.isAbsolute
isAbsolute(P, s) ==
    IF P = "win32"
    THEN Len(s) > 0 /\ (s[1] \in Seps(P) \/ (DriveOf(P, s) # << >> /\ IsRooted(P, s)))
    ELSE Len(s) > 0 /\ s[1] = Slash

Components(P, s) == SplitBy(AfterDrive(P, s), Seps(P))

RECURSIVE normalizeString(_, _, _)
\* Resolves "." and ".." segments; acc is the result so far
normalizeString(comps, acc, allowAboveRoot) ==
    IF comps = << >> THEN acc
    ELSE LET c == Head(comps) IN
         IF c = << >> \/ c = Dot THEN normalizeString(Tail(comps), acc, allowAboveRoot)
         ELSE IF c = DotDot
         THEN IF acc # << >> /\ acc[Len(acc)] # DotDot
              THEN normalizeString(Tail(comps), Front(acc), allowAboveRoot)
              ELSE IF allowAboveRoot
              THEN normalizeString(Tail(comps), acc \o <<DotDot>>, allowAboveRoot)
              ELSE normalizeString(Tail(comps), acc, allowAboveRoot)
         ELSE normalizeString(Tail(comps), acc \o <<c>>, allowAboveRoot)

RECURSIVE resolveFrom(_, _, _, _, _, _, _)
\* path.resolve's right-to-left loop; index 0 stands for process.cwd()
resolveFrom(P, paths, cwd, i, dev, tail, abs) ==
    IF i < 0 \/ (abs /\ (P = "posix" \/ dev # << >>))
    THEN [dev |-> dev, comps |-> normalizeString(tail, << >>, ~abs), abs |-> abs]
    ELSE LET raw == IF i >= 1 THEN paths[i]
                    ELSE IF dev = << >> \/ DriveOf(P, cwd) = dev THEN cwd
                    ELSE dev \o <<Backslash>>
             d == DriveOf(P, raw)
         IN IF raw = << >> THEN resolveFrom(P, paths, cwd, i - 1, dev, tail, abs)
            ELSE IF d # << >> /\ dev # << >> /\ d # dev
            THEN resolveFrom(P, paths, cwd, i - 1, dev, tail, abs)
            ELSE LET dev2 == IF dev # << >> THEN dev ELSE d IN
                 IF abs THEN resolveFrom(P, paths, cwd, i - 1, dev2, tail, abs)
                 ELSE resolveFrom(P, paths, cwd, i - 1, dev2,
                                  Components(P, raw) \o tail, IsRooted(P, raw))

resolveParts(P, paths, cwd) == resolveFrom(P, paths, cwd, Len(paths), << >>, << >>, FALSE)

\* A resolved path as a string
Render(P, r) ==
    LET body == JoinWith(r.comps, sep(P)) IN
    IF r.abs THEN r.dev \o <<sep(P)>> \o body
    ELSE IF r.dev \o body = << >> THEN Dot
    ELSE r.dev \o body

\* path.resolve(...paths)
resolve(P, paths, cwd) == Render(P, resolveParts(P, paths, cwd))

\* path.normalize
normalize(P, s) ==
    IF s = << >> THEN Dot
    ELSE LET dev == DriveOf(P, s)
             rooted == IsRooted(P, s)
             rest == AfterDrive(P, s)
             trailing == Len(rest) > 0 /\ rest[Len(rest)] \in Seps(P)
             norm == normalizeString(Components(P, s), << >>, ~rooted)
             head == dev \o (IF rooted THEN <<sep(P)>> ELSE << >>)
         IN IF norm = << >>
            THEN IF rooted THEN head
                 ELSE IF trailing THEN dev \o Dot \o <<sep(P)>>
                 ELSE dev \o Dot
            ELSE head \o JoinWith(norm, sep(P)) \o (IF trailing THEN <<sep(P)>> ELSE << >>)

CommonPrefixLen(a, b) ==
    CHOOSE k \in 0..Len(a) :
        /\ k <= Len(b)
        /\ SubSeq(a, 1, k) = SubSeq(b, 1, k)
        /\ \A j \in (k + 1)..Len(a) : j > Len(b) \/ SubSeq(a, 1, j) # SubSeq(b, 1, j)

\* path.relative(from, to)
relative(P, cwd, from, to) ==
    LET f == resolveParts(P, <<from>>, cwd)
        t == resolveParts(P, <<to>>, cwd)
        k == CommonPrefixLen(f.comps, t.comps)
    IN IF f = t THEN << >>
       ELSE IF f.dev # t.dev THEN Render(P, t)
       ELSE JoinWith([i \in 1..(Len(f.comps) - k) |-> DotDot]
                        \o SubSeq(t.comps, k + 1, Len(t.comps)), sep(P))

(***************************************************************************)
(* The directory tree validateVaultPath looks at (on win32, drive C:):     *)
(*   /v        the vault             /v/f   a file in it                   *)
(*   /v/e  ->  /o   a symlink planted in the vault, pointing outside it    *)
(*   /o        a directory outside   /o/f   a file in it                   *)
(*   /l    ->  /v   a symlink to the vault                                 *)
(* The names n and x exist nowhere.                                        *)
(***************************************************************************)
MaxLinkHops == 3

Dir == [type |-> "dir", target |-> << >>]
RegularFile == [type |-> "file", target |-> << >>]
LinkTo(t) == [type |-> "link", target |-> t]
Missing == [type |-> "missing", target |-> << >>]

TreeDrive(P) == IF P = "win32" THEN <<"C", ":">> ELSE << >>

\* The entry at the components p: the one the other actor put there, or
\* the original one
Entry(P, dev, p) ==
    IF dev # TreeDrive(P) THEN (IF p = << >> THEN Dir ELSE Missing)
    ELSE IF p # << >> /\ p = rSwap.entry THEN LinkTo(rSwap.to)
    ELSE CASE p = << >> -> Dir
           [] p = << <<"v">> >> -> Dir
           [] p = << <<"v">>, <<"f">> >> -> RegularFile
           [] p = << <<"v">>, <<"g">> >> -> RegularFile
           [] p = << <<"v">>, <<"d">> >> -> Dir
           [] p = << <<"v">>, <<"d">>, <<"f">> >> -> RegularFile
           [] p = << <<"v">>, <<"e">> >> -> LinkTo(<< <<"o">> >>)
           [] p = << <<"o">> >> -> Dir
           [] p = << <<"o">>, <<"f">> >> -> RegularFile
           [] p = << <<"l">> >> -> LinkTo(<< <<"v">> >>)
           [] OTHER -> Missing

RECURSIVE Walk(_, _, _, _, _, _)
\* Follows the components of `rest` from the canonical directory `done`,
\* replacing each symlink by its target.  strict: a missing component is an
\* error (realpath); otherwise the remaining components are appended (where a
\* later open with O_CREAT lands).
Walk(P, dev, done, rest, hops, strict) ==
    IF rest = << >> THEN [ok |-> TRUE, comps |-> done]
    ELSE LET next == done \o <<Head(rest)>>
             e == Entry(P, dev, next)
         IN IF e.type = "missing"
            THEN [ok |-> ~strict, comps |-> done \o rest]
            ELSE IF e.type = "link"
            THEN IF hops = 0 THEN [ok |-> FALSE, comps |-> done \o rest]
                 ELSE Walk(P, dev, << >>, e.target \o Tail(rest), hops - 1, strict)
            ELSE IF e.type = "file" /\ Tail(rest) # << >>
            THEN [ok |-> FALSE, comps |-> done \o rest]
            ELSE Walk(P, dev, next, Tail(rest), hops, strict)

\* fs.realpath: the canonical path, or failure (ENOENT, ENOTDIR, ELOOP)
realpath(P, cwd, s) ==
    LET r == resolveParts(P, <<s>>, cwd)
        w == Walk(P, r.dev, << >>, r.comps, MaxLinkHops, TRUE)
    IN [ok |-> w.ok, path |-> Render(P, [dev |-> r.dev, comps |-> w.comps, abs |-> TRUE])]

(***************************************************************************)
(* validateVaultPath and validateVaultPathSync                             *)
(***************************************************************************)
MAX_PATH_LENGTH == 4096

PathValidationError(msg) == [status |-> "error", path |-> << >>, message |-> msg]
Returned(path) == [status |-> "ok", path |-> path, message |-> None]

HasNul(s) == \E i \in 1..Len(s) : s[i] = NUL

\* relativePath.startsWith('..' + sep) || isAbsolute(relativePath), then
\* relativePath === '..'
EscapesNoBareDotDot(P, rel) == StartsWith(rel, DotDot \o <<sep(P)>>) \/ isAbsolute(P, rel)
Escapes(P, rel) ==
    \/ StartsWith(rel, DotDot \o <<sep(P)>>) \/ isAbsolute(P, rel)
    \/ rel = DotDot

\* A validator that compares the paths as written and never asks the file
\* system where they lead
validateVaultPathLexical(P, cwd, vaultPath, targetPath) ==
    IF vaultPath = << >> THEN PathValidationError("Vault path must be a non-empty string")
    ELSE IF targetPath = << >> THEN PathValidationError("Target path must be a non-empty string")
    ELSE IF HasNul(vaultPath) \/ HasNul(targetPath) THEN PathValidationError("Path contains null byte")
    ELSE IF ~isAbsolute(P, vaultPath) THEN PathValidationError("Vault path must be absolute")
    ELSE LET candidatePath == IF isAbsolute(P, targetPath)
                              THEN resolve(P, <<targetPath>>, cwd)
                              ELSE resolve(P, <<vaultPath, targetPath>>, cwd)
             normalizedCandidate == normalize(P, candidatePath)
         IN IF Escapes(P, relative(P, cwd, vaultPath, normalizedCandidate))
            THEN PathValidationError("Path escapes vault boundaries")
            ELSE Returned(normalizedCandidate)

validateVaultPath(P, cwd, vaultPath, targetPath) ==
    IF vaultPath = << >> THEN PathValidationError("Vault path must be a non-empty string")
    ELSE IF targetPath = << >> THEN PathValidationError("Target path must be a non-empty string")
    ELSE IF HasNul(vaultPath) \/ HasNul(targetPath) THEN PathValidationError("Path contains null byte")
    ELSE IF ~isAbsolute(P, vaultPath) THEN PathValidationError("Vault path must be absolute")
    ELSE LET rv == realpath(P, cwd, vaultPath) IN
         IF ~rv.ok THEN PathValidationError("Vault path does not exist or is not accessible")
         ELSE LET canonicalVault == rv.path
                  candidatePath == IF isAbsolute(P, targetPath)
                                   THEN resolve(P, <<targetPath>>, cwd)
                                   ELSE resolve(P, <<canonicalVault, targetPath>>, cwd)
                  normalizedCandidate == normalize(P, candidatePath)
                  relativePath == relative(P, cwd, canonicalVault, normalizedCandidate)
              IN IF Escapes(P, relativePath)
                 THEN PathValidationError("Path escapes vault boundaries")
                 ELSE IF Len(normalizedCandidate) > MAX_PATH_LENGTH
                 THEN PathValidationError("Path exceeds maximum length")
                 ELSE LET canonicalTarget == realpath(P, cwd, normalizedCandidate) IN
                      IF ~canonicalTarget.ok THEN Returned(normalizedCandidate)
                      ELSE IF Escapes(P, relative(P, cwd, canonicalVault, canonicalTarget.path))
                      THEN PathValidationError("Symlink escapes vault boundaries")
                      ELSE Returned(canonicalTarget.path)

validateVaultPathSync(P, cwd, vaultPath, targetPath) ==
    IF vaultPath = << >> THEN PathValidationError("Vault path must be a non-empty string")
    ELSE IF targetPath = << >> THEN PathValidationError("Target path must be a non-empty string")
    ELSE IF HasNul(vaultPath) \/ HasNul(targetPath) THEN PathValidationError("Path contains null byte")
    ELSE IF ~isAbsolute(P, vaultPath) THEN PathValidationError("Vault path must be absolute")
    ELSE LET candidatePath == IF isAbsolute(P, targetPath)
                              THEN resolve(P, <<targetPath>>, cwd)
                              ELSE resolve(P, <<vaultPath, targetPath>>, cwd)
             normalizedCandidate == normalize(P, candidatePath)
             relativePath == relative(P, cwd, vaultPath, normalizedCandidate)
         IN IF Escapes(P, relativePath)
            THEN PathValidationError("Path escapes vault boundaries")
            ELSE IF Len(normalizedCandidate) > MAX_PATH_LENGTH
            THEN PathValidationError("Path exceeds maximum length")
            ELSE Returned(normalizedCandidate)

(***************************************************************************)
(* The calls: inputs are drawn at Init, the call is one step.              *)
(***************************************************************************)
MaxComps == 3

Platforms == {"posix", "win32"}

\* Component names a target is built from
TargetNames == {Dot, DotDot, <<"v">>, <<"f">>, <<"e">>, <<"n">>, <<"o">>}
\* What a target may start with: nothing, a root, a drive root
TargetPrefixes == {<< >>, <<Slash>>, <<"D", ":", Backslash>>}

CompLists == UNION {[1..n -> TargetNames] : n \in 0..MaxComps}

Targets ==
    {pre \o JoinWith(cs, c) : pre \in TargetPrefixes, cs \in CompLists, c \in {Slash, Backslash}}
        \cup {<<"f", NUL>>}

\* Vault arguments: the vault, with a trailing separator, through a symlink
VaultPaths(P) ==
    IF P = "win32"
    THEN {<<"C", ":", Backslash, "v">>, <<"C", ":", Backslash, "v", Backslash>>}
    ELSE {<<Slash, "v">>, <<Slash, "v", Slash>>, <<Slash, "l">>}
\* Vault arguments the call refuses: relative, nonexistent, empty
BadVaultPaths == {<<"v">>, <<Slash, "n">>, << >>}
\* Targets tried against them (and the empty target)
FewTargets == {<< >>, <<"f">>, <<Slash, "o">>}

Cwds(P) ==
    IF P = "win32" THEN {<<"C", ":", Backslash>>, <<"D", ":", Backslash>>} ELSE {<<Slash>>}

Pending == [status |-> "pending", path |-> << >>, message |-> None]

\* No writeKanbanFile caller exists
FsIdle ==
    /\ initial = Absent
    /\ dir = [n \in {"path", "tmp"} |-> NoIno]
    /\ inodeData = [i \in Inodes |-> << >>]
    /\ kind = [w \in Callers |-> "write"]
    /\ pc = [w \in Callers |-> "idle"]
    /\ board = [w \in Callers |-> {}]
    /\ fd = [w \in Callers |-> NoIno]
    /\ off = [w \in Callers |-> 0]
    /\ cause = [w \in Callers |-> None]
    /\ cleanup = [w \in Callers |-> None]
    /\ thrown = [w \in Callers |-> None]
    /\ faults = 0

InitPath ==
    /\ RaceIdle /\ ValidatorsIdle
    /\ pvPlatform \in Platforms
    /\ pvCwd \in Cwds(pvPlatform)
    /\ \/ pvVault \in VaultPaths(pvPlatform) /\ pvTarget \in Targets
       \/ pvVault \in BadVaultPaths /\ pvTarget \in FewTargets
    /\ pvResult = Pending
    /\ FsIdle /\ CodecIdle /\ ToolsIdle

ValidateVaultPath ==
    /\ pvResult = Pending
    /\ pvResult' = [validateVaultPath(pvPlatform, pvCwd, pvVault, pvTarget) EXCEPT !.message =
                        IF @ = None THEN "async" ELSE @]
    /\ UNCHANGED <<pvPlatform, pvCwd, pvVault, pvTarget>>
    /\ UNCHANGED nonPathVars

ValidateVaultPathSync ==
    /\ pvResult = Pending
    /\ pvResult' = [validateVaultPathSync(pvPlatform, pvCwd, pvVault, pvTarget) EXCEPT !.message =
                        IF @ = None THEN "sync" ELSE @]
    /\ UNCHANGED <<pvPlatform, pvCwd, pvVault, pvTarget>>
    /\ UNCHANGED nonPathVars

PathStep == ValidateVaultPath \/ ValidateVaultPathSync

SpecPath == InitPath /\ [][PathStep]_vars

(***************************************************************************)
(* Claims about validateVaultPath                                          *)
(***************************************************************************)
IsPrefix(a, b) == Len(a) <= Len(b) /\ SubSeq(b, 1, Len(a)) = a

\* The vault as it really is on disk
VaultRoot(P) == [dev |-> TreeDrive(P), comps |-> << <<"v">> >>, abs |-> TRUE]

\* A resolved location is the vault root or below it
InsideVault(P, r) == r.dev = TreeDrive(P) /\ IsPrefix(VaultRoot(P).comps, r.comps)

\* A string is the root string or the root string, a separator, and more
LexicallyWithin(P, root, path) == path = root \/ StartsWith(path, root \o <<sep(P)>>)

ReturnedAsync == pvResult.status = "ok" /\ pvResult.message = "async"
Decided == pvResult.status \in {"ok", "error"}
Rejected == pvResult.status = "error"

\* Where the returned path leads once every symlink on it is followed
LandsAt(P, path) ==
    LET r == resolveParts(P, <<path>>, pvCwd) IN
    [dev |-> r.dev, abs |-> TRUE,
     comps |-> Walk(P, r.dev, << >>, r.comps, MaxLinkHops, FALSE).comps]

\* C2: no path validateVaultPath returns leads, after following
\* the symlinks in all of its components, outside the canonical vault root,
\* whether or not its last component exists.
C2_NoReturnedPathLeavesVaultThroughSymlink ==
    ReturnedAsync => InsideVault(pvPlatform, LandsAt(pvPlatform, pvResult.path))

\* Where the target ends once "." and ".." are resolved against the vault
EndsOutside(P, t) ==
    ~InsideVault(P, resolveParts(P, <<Render(P, VaultRoot(P)), t>>, pvCwd))

GoodVault == pvVault \in VaultPaths(pvPlatform)

\* C3: a returned path is the canonical vault root or lexically below it, and
\* every target that ends above or outside the root once its "." and ".."
\* components are resolved (by climbing with "..", or by being absolute) is
\* rejected, with or without a trailing separator on the vault path, whether
\* or not the target exists.
C3_ReturnedPathWithinRoot ==
    /\ ReturnedAsync =>
          LexicallyWithin(pvPlatform, Render(pvPlatform, VaultRoot(pvPlatform)), pvResult.path)
    /\ (Decided /\ GoodVault /\ pvTarget # << >> /\ EndsOutside(pvPlatform, pvTarget))
          => Rejected

\* C3 witness: vault path with a trailing separator, a target that does not
\* exist and climbs two levels: rejected
C3_Witness ==
    /\ pvVault = <<Slash, "v", Slash>>
    /\ pvTarget = <<".", ".", Slash, ".", ".", Slash, "n">>
    /\ pvResult = PathValidationError("Path escapes vault boundaries")

\* Targets written the Windows way: a drive-letter path and a backslash traversal
WindowsStyleTargets ==
    {<<"D", ":", Backslash, "o">>, <<"D", ":", Backslash, "o", Backslash, "f">>,
     <<".", ".", Backslash, "o">>, <<".", ".", Backslash, "o", Backslash, "f">>}

\* C4: a drive-letter target and a backslash traversal target are
\* rejected for every vault root on every host platform.
C4_WindowsStyleTargetsRejectedEverywhere ==
    (Decided /\ GoodVault /\ pvTarget \in WindowsStyleTargets) => Rejected

(***************************************************************************)
(* Text: strings are sequences of characters.  Besides ordinary characters *)
(* (letters, and words such as "kanban-plugin" that stand for a run of     *)
(* letters) the alphabet has the characters the validators and the parser  *)
(* treat specially.                                                        *)
(***************************************************************************)
SP == " "
TAB == "\t"
NL == "\n"
CR == "\r"
LS == "U+2028"
BEL == "U+0007"

\* charCodeAt(i) < 32
ControlChars == {NUL, BEL, TAB, NL, CR}
\* What String.prototype.trim strips and the regular expression \s matches
WhiteSpace == {SP, TAB, NL, CR, LS}
\* What the regular expression . does not match
LineTerminators == {NL, CR, LS}

Has(s, c) == \E i \in 1..Len(s) : s[i] = c
AllIn(s, set) == \A i \in 1..Len(s) : s[i] \in set
NoneIn(s, set) == \A i \in 1..Len(s) : s[i] \notin set
Drop(s, n) == SubSeq(s, n + 1, Len(s))

RECURSIVE trimStart(_)
trimStart(s) == IF s # << >> /\ Head(s) \in WhiteSpace THEN trimStart(Tail(s)) ELSE s
RECURSIVE trimEnd(_)
trimEnd(s) == IF s # << >> /\ s[Len(s)] \in WhiteSpace THEN trimEnd(Front(s)) ELSE s
\* String.prototype.trim
trim(s) == trimEnd(trimStart(s))

(***************************************************************************)
(* utils/input-validator.ts                                                *)
(***************************************************************************)
MAX_ITEM_TEXT_LENGTH == 10240
MAX_COLUMN_NAME_LENGTH == 200

\* A run of MAX_ITEM_TEXT_LENGTH letters and one of MAX_COLUMN_NAME_LENGTH
\* letters, each held as one element of a string
ItemRun == "x * MAX_ITEM_TEXT_LENGTH"
NameRun == "x * MAX_COLUMN_NAME_LENGTH"
width(c) ==
    IF c = ItemRun THEN MAX_ITEM_TEXT_LENGTH
    ELSE IF c = NameRun THEN MAX_COLUMN_NAME_LENGTH
    ELSE 1
RECURSIVE length(_)
\* String.prototype.length
length(s) == IF s = << >> THEN 0 ELSE width(Head(s)) + length(Tail(s))

InputValidationError(msg) == [ok |-> FALSE, value |-> << >>, error |-> msg]
Valid(v) == [ok |-> TRUE, value |-> v, error |-> None]

containsNullByte(text) == Has(text, NUL)

containsControlCharacters(text, allowNewlines) ==
    \E i \in 1..Len(text) :
        /\ text[i] # TAB
        /\ ~(allowNewlines /\ text[i] \in {NL, CR})
        /\ text[i] \in ControlChars

\* An item validator that looks for newlines before it trims
validateItemTextNoNewlines(text) ==
    IF containsNullByte(text) THEN InputValidationError("Item text contains null byte")
    ELSE IF containsControlCharacters(text, FALSE)
    THEN InputValidationError("Item text contains forbidden control characters")
    ELSE LET trimmed == trim(text) IN
         IF Len(trimmed) = 0 THEN InputValidationError("Item text cannot be empty")
         ELSE IF length(trimmed) > MAX_ITEM_TEXT_LENGTH
         THEN InputValidationError("Item text exceeds maximum length")
         ELSE Valid(trimmed)

validateItemText(text) ==
    IF containsNullByte(text) THEN InputValidationError("Item text contains null byte")
    ELSE IF containsControlCharacters(text, TRUE)
    THEN InputValidationError("Item text contains forbidden control characters")
    ELSE LET trimmed == trim(text) IN
         IF Has(trimmed, NL) \/ Has(trimmed, CR)
         THEN InputValidationError("Item text cannot contain newlines")
         ELSE IF Len(trimmed) = 0 THEN InputValidationError("Item text cannot be empty")
         ELSE IF length(trimmed) > MAX_ITEM_TEXT_LENGTH
         THEN InputValidationError("Item text exceeds maximum length")
         ELSE Valid(trimmed)

validateColumnName(name) ==
    IF containsNullByte(name) THEN InputValidationError("Column name contains null byte")
    ELSE IF Has(name, NL) \/ Has(name, CR)
    THEN InputValidationError("Column name cannot contain newlines")
    ELSE IF containsControlCharacters(name, FALSE)
    THEN InputValidationError("Column name contains forbidden control characters")
    ELSE LET trimmed == trim(name) IN
         IF Len(trimmed) = 0 THEN InputValidationError("Column name cannot be empty")
         ELSE IF length(trimmed) > MAX_COLUMN_NAME_LENGTH
         THEN InputValidationError("Column name exceeds maximum length")
         ELSE Valid(trimmed)

\* A text the validator accepts and returns as it is
SatisfiesItemText(t) == validateItemText(t) = Valid(t)
SatisfiesColumnName(n) == validateColumnName(n) = Valid(n)

(***************************************************************************)
(* The validators on their own: a string is drawn at Init and handed to    *)
(* each of them once.                                                      *)
(***************************************************************************)
MaxTextLen == 3

\* The characters tried: a letter, white space, control characters, the
\* line separator the validators know nothing of, and the two long runs
TextChars == {"a", SP, TAB, NL, CR, NUL, BEL, LS, ItemRun, NameRun}
Texts == UNION {[1..n -> TextChars] : n \in 0..MaxTextLen}

InitValidators ==
    /\ vText \in Texts
    /\ vItem = NotCalled
    /\ vName = NotCalled
    /\ RaceIdle /\ FsIdle /\ PathIdle /\ CodecIdle /\ ToolsIdle

ValidateItemText ==
    /\ vItem = NotCalled
    /\ vItem' = validateItemText(vText)
    /\ UNCHANGED <<vText, vName>>
    /\ UNCHANGED nonValidatorVars

ValidateColumnName ==
    /\ vName = NotCalled
    /\ vName' = validateColumnName(vText)
    /\ UNCHANGED <<vText, vItem>>
    /\ UNCHANGED nonValidatorVars

ValidatorStep == ValidateItemText \/ ValidateColumnName

SpecValidators == InitValidators /\ [][ValidatorStep]_vars

(***************************************************************************)
(* parsers/kanban.ts.  A Board is [settings, columns]; settings is         *)
(* [plugin, extra] with `extra` the other frontmatter keys; a column is    *)
(* [name, items]; an item is [text, completed, metadata].                  *)
(***************************************************************************)
NoMeta == << >>
Item(text, completed) == [text |-> text, completed |-> completed, metadata |-> NoMeta]
Column(name, items) == [name |-> name, items |-> items]
Settings(plugin) == [plugin |-> plugin, extra |-> << >>]
Board(settings, columns) == [settings |-> settings, columns |-> columns]

Dashes == <<"-", "-", "-">>
\* The code fence around the settings JSON, as one word
Fence == <<"fence">>
PluginKey == "kanban-plugin"

ItemLine(item) ==
    <<"-", SP, "[", (IF item.completed THEN "x" ELSE SP), "]", SP>> \o item.text

RECURSIVE ItemLines(_)
ItemLines(items) ==
    IF items = << >> THEN << >> ELSE <<ItemLine(Head(items))>> \o ItemLines(Tail(items))

RECURSIVE ColumnLines(_)
ColumnLines(columns) ==
    IF columns = << >> THEN << >>
    ELSE << <<"#", "#", SP>> \o Head(columns).name, << >> >>
            \o ItemLines(Head(columns).items)
            \o << << >> >>
            \o ColumnLines(Tail(columns))

RECURSIVE JsonEntries(_)
JsonEntries(extra) ==
    IF extra = << >> THEN << >>
    ELSE <<",", Head(extra)[1], ":", Head(extra)[2]>> \o JsonEntries(Tail(extra))

\* JSON.stringify(board.settings)
SettingsJson(settings) ==
    <<"{", PluginKey, ":", settings.plugin>> \o JsonEntries(settings.extra) \o <<"}">>

\* A serializer that writes every settings key into the front matter
serializeKanbanAllKeys(b) ==
    JoinWith(
        <<Dashes, << >>, <<PluginKey, ":", SP, b.settings.plugin>>>>
        \o [i \in 1..Len(b.settings.extra) |->
               <<b.settings.extra[i][1], ":", SP, b.settings.extra[i][2]>>]
        \o <<<< >>, Dashes, << >>>>
        \o ColumnLines(b.columns)
        \o << <<"%", "%", SP, "kanban:settings">>, Fence, SettingsJson(b.settings),
              Fence, <<"%", "%">>, << >> >>,
        NL)

\* serializeKanban: the lines, joined with "\n"
serializeKanban(b) ==
    JoinWith(
        <<Dashes, << >>, <<PluginKey, ":", SP, b.settings.plugin>>, << >>, Dashes, << >>>>
        \o ColumnLines(b.columns)
        \o << <<"%", "%", SP, "kanban:settings">>, Fence, SettingsJson(b.settings),
              Fence, <<"%", "%">>, << >> >>,
        NL)

(***************************************************************************)
(* matter(content) of gray-matter, for content whose first line is exactly *)
(* "---" or does not start with "---": the front matter runs to the first  *)
(* later line that starts with "---", the body is what follows that        *)
(* delimiter, less one leading "\r" and one leading "\n".  The front       *)
(* matter is read as YAML `key: value` lines; blank lines are skipped.     *)
(***************************************************************************)
Null == "null"

IsBlank(line) == AllIn(line, WhiteSpace)

CloseIndex(lines) ==
    IF \E j \in 2..Len(lines) : StartsWith(lines[j], Dashes)
    THEN CHOOSE j \in 2..Len(lines) :
            /\ StartsWith(lines[j], Dashes)
            /\ \A k \in 2..(j - 1) : ~StartsWith(lines[k], Dashes)
    ELSE Len(lines) + 1

HasFrontMatter(lines) == lines[1] = Dashes

RECURSIVE YamlEntries(_)
YamlEntries(lines) ==
    IF lines = << >> THEN << >>
    ELSE LET l == Head(lines) IN
         (IF Len(l) = 4 /\ l[2] = ":" /\ l[3] = SP THEN << <<l[1], l[4]>> >>
          ELSE IF Len(l) = 2 /\ l[2] = ":" THEN << <<l[1], Null>> >>
          ELSE << >>)
         \o YamlEntries(Tail(lines))

MatterData(lines) ==
    IF HasFrontMatter(lines)
    THEN YamlEntries(SubSeq(lines, 2, CloseIndex(lines) - 1))
    ELSE << >>

MatterContentLines(lines) ==
    IF ~HasFrontMatter(lines) THEN lines
    ELSE IF CloseIndex(lines) > Len(lines) THEN << << >> >>
    ELSE LET j == CloseIndex(lines)
             afterClose == Drop(lines[j], 3)
             first == IF afterClose # << >> /\ Head(afterClose) = CR
                      THEN Tail(afterClose) ELSE afterClose
             rest == SubSeq(lines, j + 1, Len(lines))
         IN  IF first = << >> /\ rest # << >> THEN rest ELSE <<first>> \o rest

HasKey(data, k) == \E i \in 1..Len(data) : data[i][1] = k
ValueOf(data, k) == data[CHOOSE i \in 1..Len(data) : data[i][1] = k][2]
WithoutKey(data, k) == SelectSeq(data, LAMBDA e : e[1] # k)

\* { 'kanban-plugin': frontmatter['kanban-plugin'] || 'basic', ...frontmatter }
SettingsOf(data) ==
    [plugin |-> IF HasKey(data, PluginKey) THEN ValueOf(data, PluginKey) ELSE "basic",
     extra |-> WithoutKey(data, PluginKey)]

(***************************************************************************)
(* The two regular expressions of parseKanban.  \s matches WhiteSpace, .   *)
(* matches anything but LineTerminators, $ matches at the end of the line  *)
(* only.  Whatever way the match splits the white space, the captured text *)
(* differs by leading white space only, which trim() removes.              *)
(***************************************************************************)
\* \s+(.+)$  or  \s+(.*)$  against s
SpaceThenRest(s, allowEmpty) ==
    \E k \in 1..Len(s) :
        /\ AllIn(SubSeq(s, 1, k), WhiteSpace)
        /\ NoneIn(Drop(s, k), LineTerminators)
        /\ allowEmpty \/ k < Len(s)

\* /^##\s+(.+)$/
headerMatch(line) == StartsWith(line, <<"#", "#">>) /\ SpaceThenRest(Drop(line, 2), FALSE)
HeaderName(line) == trim(Drop(line, 2))

\* The position of "[" in /^-\s+\[([ x])\]\s+(.*)$/
BracketAt(line) ==
    IF \E i \in 3..Len(line) : line[i] = "[" /\ AllIn(SubSeq(line, 2, i - 1), WhiteSpace)
    THEN CHOOSE i \in 3..Len(line) : line[i] = "[" /\ AllIn(SubSeq(line, 2, i - 1), WhiteSpace)
    ELSE 0

itemMatch(line) ==
    /\ line # << >> /\ Head(line) = "-"
    /\ BracketAt(line) # 0
    /\ LET i == BracketAt(line) IN
         /\ Len(line) >= i + 2
         /\ line[i + 1] \in {SP, "x"}
         /\ line[i + 2] = "]"
         /\ SpaceThenRest(Drop(line, i + 2), TRUE)
ItemOf(line) ==
    LET i == BracketAt(line) IN Item(trim(Drop(line, i + 2)), line[i + 1] = "x")

\* The loop over the lines: `columns` are the columns pushed so far,
\* `current` is << >> or the one-element list holding currentColumn
RECURSIVE ParseLines(_, _, _)
ParseLines(lines, columns, current) ==
    IF lines = << >> THEN columns \o current
    ELSE LET line == Head(lines) IN
         IF headerMatch(line)
         THEN ParseLines(Tail(lines), columns \o current, <<Column(HeaderName(line), << >>)>>)
         ELSE IF itemMatch(line) /\ current # << >>
         THEN ParseLines(Tail(lines), columns,
                         <<Column(current[1].name, Append(current[1].items, ItemOf(line)))>>)
         ELSE IF StartsWith(trim(line), <<"%", "%">>) THEN columns \o current
         ELSE ParseLines(Tail(lines), columns, current)

parseKanban(content) ==
    LET lines == SplitBy(content, {NL}) IN
    Board(SettingsOf(MatterData(lines)), ParseLines(MatterContentLines(lines), << >>, << >>))

(***************************************************************************)
(* Round trips: a Board is drawn, serialized, and the markdown parsed.     *)
(***************************************************************************)
MaxCols == 2
MaxItems == 2

\* Strings tried as column names and as item texts; the validators decide
\* which of them a tool would accept
NameCandidates == {<<"A">>, <<"%", "%">>, <<SP, "A">>, <<"A", NL, "B">>, << >>}
TextCandidates == {<<"t">>, <<"t", LS, "u">>, <<"t", SP>>, <<BEL>>, << >>}
ValidNames == {n \in NameCandidates : SatisfiesColumnName(n)}
ValidTexts == {t \in TextCandidates : SatisfiesItemText(t)}
Plugins == {"basic", "advanced"}
Metas == {NoMeta, <<"due">>}

SeqsUpTo(S, n) == UNION {[1..k -> S] : k \in 0..n}

ItemsOver(texts) ==
    {[text |-> t, completed |-> c, metadata |-> m] : t \in texts, c \in BOOLEAN, m \in Metas}
ColumnsOver(names, texts) ==
    {Column(n, is) : n \in names, is \in SeqsUpTo(ItemsOver(texts), MaxItems)}

RECURSIVE CountItems(_)
CountItems(columns) ==
    IF columns = << >> THEN 0 ELSE Len(Head(columns).items) + CountItems(Tail(columns))

\* Boards of at most MaxCols columns and MaxItems items
BoardsOver(names, texts) ==
    {Board(Settings(p), cs) :
        p \in Plugins,
        cs \in {c \in SeqsUpTo(ColumnsOver(names, texts), MaxCols) : CountItems(c) <= MaxItems}}

InitCodec ==
    /\ RaceIdle /\ ValidatorsIdle
    /\ cBoard \in BoardsOver(ValidNames, ValidTexts)
    /\ cDoc = << >>
    /\ cParsed = << >>
    /\ cPc = "board"
    /\ FsIdle /\ PathIdle /\ ToolsIdle

Serialize ==
    /\ cPc = "board"
    /\ cDoc' = serializeKanban(cBoard)
    /\ cPc' = "serialized"
    /\ UNCHANGED <<cBoard, cParsed>>
    /\ UNCHANGED nonCodecVars

Parse ==
    /\ cPc = "serialized"
    /\ cParsed' = parseKanban(cDoc)
    /\ cPc' = "parsed"
    /\ UNCHANGED <<cBoard, cDoc>>
    /\ UNCHANGED nonCodecVars

CodecStep == Serialize \/ Parse

SpecCodec == InitCodec /\ [][CodecStep]_vars

\* Every name and text of the board is one its validator returns unchanged
SatisfiesValidators(b) ==
    \A i \in 1..Len(b.columns) :
        /\ SatisfiesColumnName(b.columns[i].name)
        /\ \A k \in 1..Len(b.columns[i].items) : SatisfiesItemText(b.columns[i].items[k].text)

\* C7: a board with settings {kanban-plugin: basic|advanced} whose names and
\* texts satisfy the validators comes back from serializeKanban followed by
\* parseKanban with the same settings, columns and items (every field), in order.
C7_RoundTripReproducesBoard ==
    (cPc = "parsed" /\ cBoard.settings.extra = << >> /\ SatisfiesValidators(cBoard))
        => cParsed = cBoard

(***************************************************************************)
(* The mutation tools (tools/kanban), first as functions of the Board read *)
(* from disk: what each handler does between readKanbanFile and            *)
(* writeKanbanFile.  A result says whether the handler threw, and whether  *)
(* it goes on to write.                                                    *)
(***************************************************************************)
\* An optional argument: left out, or given with a value
Undefined == << >>
Some(v) == <<v>>

Ok(b) == [ok |-> TRUE, write |-> TRUE, board |-> b, error |-> None]
NoOp(b) == [ok |-> TRUE, write |-> FALSE, board |-> b, error |-> None]
Err(b, msg) == [ok |-> FALSE, write |-> FALSE, board |-> b, error |-> msg]

Min(a, b) == IF a < b THEN a ELSE b
Max(a, b) == IF a > b THEN a ELSE b

\* Array.prototype.findIndex, 1-based; 0 when nothing matches
FindIndex(seq, Test(_)) ==
    IF \E i \in 1..Len(seq) : Test(seq[i])
    THEN CHOOSE i \in 1..Len(seq) : Test(seq[i]) /\ \A j \in 1..(i - 1) : ~Test(seq[j])
    ELSE 0
findColumn(columns, name) == FindIndex(columns, LAMBDA c : c.name = name)
\* A lookup that takes the last item of that text
findItemLast(items, text) ==
    IF \E i \in 1..Len(items) : items[i].text = text
    THEN CHOOSE i \in 1..Len(items) :
             items[i].text = text /\ \A j \in (i + 1)..Len(items) : items[j].text # text
    ELSE 0
findItem(items, text) == FindIndex(items, LAMBDA i : i.text = text)

\* splice(i, 1) and splice(position, 0, x); position is 0-based
RemoveAt(seq, i) == SubSeq(seq, 1, i - 1) \o SubSeq(seq, i + 1, Len(seq))
InsertAt(seq, position, x) ==
    SubSeq(seq, 1, position) \o <<x>> \o SubSeq(seq, position + 1, Len(seq))

WithItems(b, c, items) == [b EXCEPT !.columns[c].items = items]

ItemAdd(b, column, text, completed) ==
    LET c == findColumn(b.columns, column) IN
    IF c = 0 THEN Err(b, "Column not found")
    ELSE Ok(WithItems(b, c, Append(b.columns[c].items, Item(text, completed))))

ItemRemove(b, column, text) ==
    LET c == findColumn(b.columns, column) IN
    IF c = 0 THEN Err(b, "Column not found")
    ELSE LET k == findItem(b.columns[c].items, text) IN
         IF k = 0 THEN Err(b, "Item not found")
         ELSE Ok(WithItems(b, c, RemoveAt(b.columns[c].items, k)))

\* A move that copies: the item is appended to the target and stays in the source
ItemMoveCopy(b, text, sourceColumn, targetColumn) ==
    LET src == findColumn(b.columns, sourceColumn)
        tgt == findColumn(b.columns, targetColumn)
    IN  IF src = 0 THEN Err(b, "Source column not found")
        ELSE IF tgt = 0 THEN Err(b, "Target column not found")
        ELSE LET k == findItem(b.columns[src].items, text) IN
             IF k = 0 THEN Err(b, "Item not found in source column")
             ELSE Ok(WithItems(b, tgt, Append(b.columns[tgt].items, b.columns[src].items[k])))

ItemMove(b, text, sourceColumn, targetColumn) ==
    LET src == findColumn(b.columns, sourceColumn)
        tgt == findColumn(b.columns, targetColumn)
    IN  IF src = 0 THEN Err(b, "Source column not found")
        ELSE IF tgt = 0 THEN Err(b, "Target column not found")
        ELSE LET k == findItem(b.columns[src].items, text) IN
             IF k = 0 THEN Err(b, "Item not found in source column")
             ELSE LET item == b.columns[src].items[k]
                      b1 == WithItems(b, src, RemoveAt(b.columns[src].items, k))
                  IN  Ok(WithItems(b1, tgt, Append(b1.columns[tgt].items, item)))

\* A reorder that clamps and inserts before it removes, so that `position`
\* counts the item's old place too
ItemReorderInsertFirst(b, column, text, position) ==
    LET c == findColumn(b.columns, column) IN
    IF c = 0 THEN Err(b, "Column not found")
    ELSE LET oldPosition == findItem(b.columns[c].items, text) IN
         IF oldPosition = 0 THEN Err(b, "Item not found")
         ELSE LET items == b.columns[c].items
                  newPosition == Max(0, Min(position, Len(items)))
                  inserted == InsertAt(items, newPosition, items[oldPosition])
              IN  Ok(WithItems(b, c, RemoveAt(inserted, IF newPosition < oldPosition
                                                        THEN oldPosition + 1
                                                        ELSE oldPosition)))

ItemReorder(b, column, text, position) ==
    LET c == findColumn(b.columns, column) IN
    IF c = 0 THEN Err(b, "Column not found")
    ELSE LET oldPosition == findItem(b.columns[c].items, text) IN
         IF oldPosition = 0 THEN Err(b, "Item not found")
         ELSE LET item == b.columns[c].items[oldPosition]
                  rest == RemoveAt(b.columns[c].items, oldPosition)
                  newPosition == Max(0, Min(position, Len(rest)))
              IN  Ok(WithItems(b, c, InsertAt(rest, newPosition, item)))

\* A complete that flips the flag whatever `completed` says
ItemCompleteAlwaysToggle(b, column, text, completed) ==
    LET c == findColumn(b.columns, column) IN
    IF c = 0 THEN Err(b, "Column not found")
    ELSE LET k == findItem(b.columns[c].items, text) IN
         IF k = 0 THEN Err(b, "Item not found")
         ELSE Ok([b EXCEPT !.columns[c].items[k].completed = ~@])

ItemComplete(b, column, text, completed) ==
    LET c == findColumn(b.columns, column) IN
    IF c = 0 THEN Err(b, "Column not found")
    ELSE LET k == findItem(b.columns[c].items, text) IN
         IF k = 0 THEN Err(b, "Item not found")
         ELSE Ok([b EXCEPT !.columns[c].items[k].completed =
                      IF completed # Undefined THEN completed[1] ELSE ~@])

ItemUpdate(b, column, oldText, newText) ==
    LET c == findColumn(b.columns, column) IN
    IF c = 0 THEN Err(b, "Column not found")
    ELSE LET k == findItem(b.columns[c].items, oldText) IN
         IF k = 0 THEN Err(b, "Item not found")
         ELSE Ok([b EXCEPT !.columns[c].items[k].text = newText])

\* An add whose bounds check also refuses position = columns.length
ColumnAddStrictBound(b, name, position) ==
    IF findColumn(b.columns, name) # 0 THEN Err(b, "Column already exists")
    ELSE LET at == IF position = Undefined THEN Len(b.columns) ELSE position[1] IN
         IF position # Undefined /\ at >= Len(b.columns) THEN Err(b, "Position is out of bounds")
         ELSE Ok([b EXCEPT !.columns = InsertAt(@, at, Column(name, << >>))])

ColumnAdd(b, name, position) ==
    IF findColumn(b.columns, name) # 0 THEN Err(b, "Column already exists")
    ELSE LET at == IF position = Undefined THEN Len(b.columns) ELSE position[1] IN
         IF at > Len(b.columns) THEN Err(b, "Position is out of bounds")
         ELSE Ok([b EXCEPT !.columns = InsertAt(@, at, Column(name, << >>))])

\* A remove that finds the column but splices out the last one
ColumnRemoveLast(b, name, target) ==
    IF findColumn(b.columns, name) = 0 THEN Err(b, "Column not found")
    ELSE Ok([b EXCEPT !.columns = RemoveAt(@, Len(@))])

\* A remove that puts the column's items in front of the target's
ColumnRemovePrepend(b, name, target) ==
    LET columnIndex == findColumn(b.columns, name) IN
    IF columnIndex = 0 THEN Err(b, "Column not found")
    ELSE LET column == b.columns[columnIndex] IN
         IF Len(column.items) > 0
         THEN IF target \in {Undefined, Some(<< >>)}
              THEN Err(b, "Column contains items. Specify targetColumn")
              ELSE LET tgt == findColumn(b.columns, target[1]) IN
                   IF tgt = 0 THEN Err(b, "Target column not found")
                   ELSE IF target[1] = name
                   THEN Err(b, "Cannot move items to the same column being removed")
                   ELSE LET b1 == WithItems(b, tgt, column.items \o b.columns[tgt].items)
                        IN  Ok([b1 EXCEPT !.columns = RemoveAt(@, columnIndex)])
         ELSE Ok([b EXCEPT !.columns = RemoveAt(@, columnIndex)])

\* A removal that takes the column's items with it
ColumnRemoveWithItems(b, name, target) ==
    LET columnIndex == findColumn(b.columns, name) IN
    IF columnIndex = 0 THEN Err(b, "Column not found")
    ELSE IF Len(b.columns[columnIndex].items) > 0
            /\ (target \in {Undefined, Some(<< >>)} \/ findColumn(b.columns, target[1]) = 0
                \/ target[1] = name)
    THEN Err(b, "Column contains items. Specify targetColumn")
    ELSE Ok([b EXCEPT !.columns = RemoveAt(@, columnIndex)])

\* `target` is the optional targetColumn; the empty string counts as none
ColumnRemove(b, name, target) ==
    LET columnIndex == findColumn(b.columns, name) IN
    IF columnIndex = 0 THEN Err(b, "Column not found")
    ELSE LET column == b.columns[columnIndex] IN
         IF Len(column.items) > 0
         THEN IF target \in {Undefined, Some(<< >>)}
              THEN Err(b, "Column contains items. Specify targetColumn")
              ELSE LET targetColumn == target[1]
                       tgt == findColumn(b.columns, targetColumn)
                   IN
                   IF tgt = 0 THEN Err(b, "Target column not found")
                   ELSE IF targetColumn = name
                   THEN Err(b, "Cannot move items to the same column being removed")
                   ELSE LET b1 == WithItems(b, tgt, b.columns[tgt].items \o column.items)
                        IN  Ok([b1 EXCEPT !.columns = RemoveAt(@, columnIndex)])
         ELSE Ok([b EXCEPT !.columns = RemoveAt(@, columnIndex)])

\* A rename whose conflict check lets newName = oldName through
ColumnRenameAllowSame(b, oldName, newName) ==
    LET c == findColumn(b.columns, oldName) IN
    IF c = 0 THEN Err(b, "Column not found")
    ELSE IF newName # oldName /\ findColumn(b.columns, newName) # 0
    THEN Err(b, "Column already exists")
    ELSE Ok([b EXCEPT !.columns[c].name = newName])

ColumnRename(b, oldName, newName) ==
    LET c == findColumn(b.columns, oldName) IN
    IF c = 0 THEN Err(b, "Column not found")
    ELSE IF findColumn(b.columns, newName) # 0 THEN Err(b, "Column already exists")
    ELSE Ok([b EXCEPT !.columns[c].name = newName])

\* A move without the shortcut for a column that is at `position` already
ColumnMoveNoShortcut(b, name, position) ==
    LET columnIndex == findColumn(b.columns, name) - 1 IN
    IF columnIndex = -1 THEN Err(b, "Column not found")
    ELSE IF position >= Len(b.columns) THEN Err(b, "Position is out of bounds")
    ELSE Ok([b EXCEPT !.columns =
                InsertAt(RemoveAt(@, columnIndex + 1), position, b.columns[columnIndex + 1])])

ColumnMove(b, name, position) ==
    LET columnIndex == findColumn(b.columns, name) - 1 IN
    IF columnIndex = -1 THEN Err(b, "Column not found")
    ELSE IF position >= Len(b.columns) THEN Err(b, "Position is out of bounds")
    ELSE IF columnIndex = position THEN NoOp(b)
    ELSE Ok([b EXCEPT !.columns =
                InsertAt(RemoveAt(@, columnIndex + 1), position, b.columns[columnIndex + 1])])

\* validated.archiveColumn || 'Archive', after the schema's default('Archive')
ArchiveName(archiveColumn) ==
    IF archiveColumn \in {Undefined, Some(<< >>)} THEN <<"Archive">> ELSE archiveColumn[1]

RECURSIVE CompletedOutside(_, _)
CompletedOutside(columns, name) ==
    IF columns = << >> THEN << >>
    ELSE (IF Head(columns).name = name THEN << >>
          ELSE SelectSeq(Head(columns).items, LAMBDA i : i.completed))
         \o CompletedOutside(Tail(columns), name)

\* An archive that puts the collected items in front of the archive column's own
ArchiveDoneInFront(b, archiveColumn) ==
    LET archiveColumnName == ArchiveName(archiveColumn)
        columns == IF findColumn(b.columns, archiveColumnName) = 0
                   THEN Append(b.columns, Column(archiveColumnName, << >>))
                   ELSE b.columns
        a == findColumn(columns, archiveColumnName)
        archivedItems == CompletedOutside(columns, archiveColumnName)
        kept == [i \in 1..Len(columns) |->
                    IF columns[i].name = archiveColumnName THEN columns[i]
                    ELSE Column(columns[i].name,
                                SelectSeq(columns[i].items, LAMBDA it : ~it.completed))]
    IN  Ok([b EXCEPT !.columns = [kept EXCEPT ![a].items = archivedItems \o @]])

ArchiveDone(b, archiveColumn) ==
    LET archiveColumnName == ArchiveName(archiveColumn)
        columns == IF findColumn(b.columns, archiveColumnName) = 0
                   THEN Append(b.columns, Column(archiveColumnName, << >>))
                   ELSE b.columns
        a == findColumn(columns, archiveColumnName)
        archivedItems == CompletedOutside(columns, archiveColumnName)
        kept == [i \in 1..Len(columns) |->
                    IF columns[i].name = archiveColumnName THEN columns[i]
                    ELSE Column(columns[i].name,
                                SelectSeq(columns[i].items, LAMBDA it : ~it.completed))]
    IN  Ok([b EXCEPT !.columns = [kept EXCEPT ![a].items = @ \o archivedItems]])

\* A merge that appends every source item
MergeItemsAll(items, sourceItems) == items \o sourceItems

\* Append the source items whose text the target column does not hold yet
RECURSIVE MergeItems(_, _)
MergeItems(items, sourceItems) ==
    IF sourceItems = << >> THEN items
    ELSE LET item == Head(sourceItems)
             isDuplicate == \E i \in 1..Len(items) : items[i].text = item.text
         IN  MergeItems(IF isDuplicate THEN items ELSE Append(items, item), Tail(sourceItems))

RECURSIVE MergeColumns(_, _)
MergeColumns(columns, sourceColumns) ==
    IF sourceColumns = << >> THEN columns
    ELSE LET sourceColumn == Head(sourceColumns)
             cols == IF findColumn(columns, sourceColumn.name) = 0
                     THEN Append(columns, Column(sourceColumn.name, << >>))
                     ELSE columns
             t == findColumn(cols, sourceColumn.name)
         IN  MergeColumns([cols EXCEPT ![t].items = MergeItems(@, sourceColumn.items)],
                          Tail(sourceColumns))

\* One round of kanbanMerge's loop
MergeBoard(targetBoard, sourceBoard) ==
    [targetBoard EXCEPT !.columns = MergeColumns(@, sourceBoard.columns)]

\* The board kanbanCreate builds from validated column names
NewBoard(settings, names) ==
    Board(settings, [i \in 1..Len(names) |-> Column(names[i], << >>)])

(***************************************************************************)
(* One call of a tool against the vault /v of the file tree above: the     *)
(* board file /v/f exists, /v/n does not.  The call runs the schema, then  *)
(* validateVaultPath, readKanbanFile and the handler's checks in one step, *)
(* and writeKanbanFile in three: writeFile of the temp file, rename,       *)
(* and, after a failure, the cleanup unlink.  Any I/O request may fail.    *)
(***************************************************************************)
MaxPosition == 3
MaxSources == 2

Vault == <<Slash, "v">>
BoardFile == <<Slash, "v", Slash, "f">>
NewFile == <<Slash, "v", Slash, "n">>
\* A second board of the vault, which the calls only read
OtherFile == <<Slash, "v", Slash, "g">>
\* `${path}.tmp`
TempOf(path) == path \o <<".tmp">>
DiskPaths == {BoardFile, NewFile, OtherFile, TempOf(BoardFile), TempOf(NewFile)}

\* The `board` arguments tried: the board, a file that does not exist, a
\* file outside the vault
BoardArgs == {<<"f">>, <<"n">>, DotDot \o <<Slash, "o", Slash, "f">>}
\* await validateVaultPath(validated.vault, target).  The tree it looks at
\* does not change, so its results are worked out once, when the call starts.
\* The `sourceBoard` / `sourceBoards` arguments tried
SourceArgs == BoardArgs \cup {<<"g">>}
ResolvedPaths ==
    [target \in SourceArgs |-> validateVaultPath("posix", <<Slash>>, Vault, target)]
resolvePath(target) == tResolved[target]

ReadFileAt(disk, path) == IF path \in DOMAIN disk THEN disk[path] ELSE Absent

\* z.string().min(1, ...).transform(validateColumnName / validateItemText)
ColumnArg(raw) ==
    IF Len(raw) < 1 THEN InputValidationError("Column name cannot be empty")
    ELSE validateColumnName(raw)
TextArg(raw) ==
    IF Len(raw) < 1 THEN InputValidationError("Item text cannot be empty")
    ELSE validateItemText(raw)
\* z.string().optional().transform((val) => val ? validateColumnName(val) : val)
TargetColumnArg(opt) ==
    IF opt \in {Undefined, Some(<< >>)} THEN Valid(opt)
    ELSE LET v == validateColumnName(opt[1]) IN IF v.ok THEN Valid(Some(v.value)) ELSE v
\* z.number().int().min(0, ...)
PositionArg(n) ==
    IF n < 0 THEN InputValidationError("Position must be non-negative") ELSE Valid(n)
OptPositionArg(opt) == IF opt = Undefined THEN Valid(opt) ELSE PositionArg(opt[1])

AllOk(args) == \A i \in 1..Len(args) : args[i].ok
FirstError(args) ==
    args[CHOOSE i \in 1..Len(args) : ~args[i].ok /\ \A j \in 1..(i - 1) : args[j].ok].error

\* The call rejects
Throw(tool, stage, msg) ==
    /\ tTool' = tool
    /\ tPc' = "failed"
    /\ tError' = [stage |-> stage, message |-> msg]
    /\ UNCHANGED <<tDisk, tBefore, tResolved, tPath, tBoard, tIssued, tSerialized>>

\* The call resolves without writing
Return(tool) ==
    /\ tTool' = tool
    /\ tPc' = "done"
    /\ UNCHANGED <<tDisk, tBefore, tResolved, tPath, tBoard, tError, tIssued, tSerialized>>

\* The call reaches `await writeKanbanFile(path, b)`
WriteKanbanFile(tool, path, b) ==
    /\ tTool' = tool
    /\ tPc' = "write"
    /\ tPath' = path
    /\ tBoard' = b
    /\ UNCHANGED <<tDisk, tBefore, tResolved, tError, tIssued, tSerialized>>

\* A handler that writes first and checks afterwards
ProceedWriteFirst(tool, path, r) ==
    IF ~r.ok
    THEN /\ tTool' = tool
         /\ tPc' = "failed"
         /\ tError' = [stage |-> "check", message |-> r.error]
         /\ tDisk' = [tDisk EXCEPT ![path] = File(serializeKanban(r.board))]
         /\ tIssued' = tIssued \cup {"writeFile", "rename"}
         /\ tSerialized' = tSerialized \cup {r.board}
         /\ UNCHANGED <<tBefore, tResolved, tPath, tBoard>>
    ELSE IF r.write THEN WriteKanbanFile(tool, path, r.board)
    ELSE Return(tool)

\* After the handler's lookups and checks: throw, return, or write
Proceed(tool, path, r) ==
    IF ~r.ok THEN Throw(tool, "check", r.error)
    ELSE IF r.write THEN WriteKanbanFile(tool, path, r.board)
    ELSE Return(tool)

\* schema.parse(params), validateVaultPath, readKanbanFile, then the handler
Handle(tool, args, target, Op(_)) ==
    IF ~AllOk(args) THEN Throw(tool, "arguments", FirstError(args))
    ELSE LET p == resolvePath(target) IN
         IF p.status = "error" THEN Throw(tool, "path", p.message)
         ELSE \/ Throw(tool, "read", "Failed to read kanban file")
              \/ /\ ReadFileAt(tDisk, p.path).exists
                 /\ Proceed(tool, p.path, Op(parseKanban(ReadFileAt(tDisk, p.path).data)))

\* Argument values tried
RawNames == {<<"A">>, <<"B">>, <<"C">>, <<SP, "A">>, <<"A", NL, "B">>, << >>}
RawTexts == {<<"t">>, <<"u">>, <<"t", SP>>, <<"t", LS, "u">>, <<BEL>>}
OptBools == {Undefined, Some(TRUE), Some(FALSE)}
Positions == -1..MaxPosition
OptPositions == {Undefined} \cup {Some(n) : n \in Positions}
OptNames == {Undefined} \cup {Some(n) : n \in RawNames}
ArchiveArgs == {Undefined, Some(<< >>), Some(<<"A">>), Some(<<SP>>), Some(<<"A", NL, "B">>)}
SettingsArgs ==
    {Undefined, Some(Settings("advanced")), Some(Settings("other")),
     Some([plugin |-> "basic", extra |-> << <<"lane-width", "300">> >>])}

kanbanItemAdd ==
    /\ tPc = "idle"
    /\ \E target \in BoardArgs, column \in RawNames, text \in RawTexts, completed \in OptBools :
           LET c == ColumnArg(column)
               t == TextArg(text)
           IN  /\ tArgs' = [column |-> c.value, text |-> t.value, completed |-> completed]
               /\ tFault' = NoFault
               /\ Handle("kanban_item_add", <<c, t>>, target,
                         LAMBDA b : ItemAdd(b, c.value, t.value,
                                            IF completed = Undefined THEN FALSE ELSE completed[1]))
    /\ UNCHANGED nonToolVars

kanbanItemRemove ==
    /\ tPc = "idle"
    /\ \E target \in BoardArgs, column \in RawNames, text \in RawTexts :
           LET c == ColumnArg(column)
               t == TextArg(text)
           IN  /\ tArgs' = [column |-> c.value, text |-> t.value]
               /\ tFault' = NoFault
               /\ Handle("kanban_item_remove", <<c, t>>, target,
                         LAMBDA b : ItemRemove(b, c.value, t.value))
    /\ UNCHANGED nonToolVars

kanbanItemMove ==
    /\ tPc = "idle"
    /\ \E target \in BoardArgs, text \in RawTexts, sourceColumn \in RawNames, targetColumn \in RawNames :
           LET t == TextArg(text)
               sc == ColumnArg(sourceColumn)
               tc == ColumnArg(targetColumn)
           IN  /\ tArgs' = [text |-> t.value, sourceColumn |-> sc.value, targetColumn |-> tc.value]
               /\ tFault' = NoFault
               /\ Handle("kanban_item_move", <<t, sc, tc>>, target,
                         LAMBDA b : ItemMove(b, t.value, sc.value, tc.value))
    /\ UNCHANGED nonToolVars

kanbanItemUpdate ==
    /\ tPc = "idle"
    /\ \E target \in BoardArgs, column \in RawNames, oldText \in RawTexts, newText \in RawTexts :
           LET c == ColumnArg(column)
               ot == TextArg(oldText)
               nt == TextArg(newText)
           IN  /\ tArgs' = [column |-> c.value, oldText |-> ot.value, newText |-> nt.value]
               /\ tFault' = NoFault
               /\ Handle("kanban_item_update", <<c, ot, nt>>, target,
                         LAMBDA b : ItemUpdate(b, c.value, ot.value, nt.value))
    /\ UNCHANGED nonToolVars

kanbanItemComplete ==
    /\ tPc = "idle"
    /\ \E target \in BoardArgs, column \in RawNames, text \in RawTexts, completed \in OptBools :
           LET c == ColumnArg(column)
               t == TextArg(text)
           IN  /\ tArgs' = [column |-> c.value, text |-> t.value, completed |-> completed]
               /\ tFault' = NoFault
               /\ Handle("kanban_item_complete", <<c, t>>, target,
                         LAMBDA b : ItemComplete(b, c.value, t.value, completed))
    /\ UNCHANGED nonToolVars

kanbanItemReorder ==
    /\ tPc = "idle"
    /\ \E target \in BoardArgs, column \in RawNames, text \in RawTexts, position \in Positions :
           LET c == ColumnArg(column)
               t == TextArg(text)
               pos == PositionArg(position)
           IN  /\ tArgs' = [column |-> c.value, text |-> t.value, position |-> pos.value]
               /\ tFault' = NoFault
               /\ Handle("kanban_item_reorder", <<c, t, pos>>, target,
                         LAMBDA b : ItemReorder(b, c.value, t.value, pos.value))
    /\ UNCHANGED nonToolVars

kanbanColumnAdd ==
    /\ tPc = "idle"
    /\ \E target \in BoardArgs, name \in RawNames, position \in OptPositions :
           LET n == ColumnArg(name)
               pos == OptPositionArg(position)
           IN  /\ tArgs' = [name |-> n.value, position |-> position]
               /\ tFault' = NoFault
               /\ Handle("kanban_column_add", <<n, pos>>, target,
                         LAMBDA b : ColumnAdd(b, n.value, position))
    /\ UNCHANGED nonToolVars

kanbanColumnRemove ==
    /\ tPc = "idle"
    /\ \E target \in BoardArgs, name \in RawNames, targetColumn \in OptNames :
           LET n == ColumnArg(name)
               tc == TargetColumnArg(targetColumn)
           IN  /\ tArgs' = [name |-> n.value, targetColumn |-> tc.value]
               /\ tFault' = NoFault
               /\ Handle("kanban_column_remove", <<n, tc>>, target,
                         LAMBDA b : ColumnRemove(b, n.value, tc.value))
    /\ UNCHANGED nonToolVars

kanbanColumnRename ==
    /\ tPc = "idle"
    /\ \E target \in BoardArgs, oldName \in RawNames, newName \in RawNames :
           LET o == ColumnArg(oldName)
               n == ColumnArg(newName)
           IN  /\ tArgs' = [oldName |-> o.value, newName |-> n.value]
               /\ tFault' = NoFault
               /\ Handle("kanban_column_rename", <<o, n>>, target,
                         LAMBDA b : ColumnRename(b, o.value, n.value))
    /\ UNCHANGED nonToolVars

kanbanColumnMove ==
    /\ tPc = "idle"
    /\ \E target \in BoardArgs, name \in RawNames, position \in Positions :
           LET n == ColumnArg(name)
               pos == PositionArg(position)
           IN  /\ tArgs' = [name |-> n.value, position |-> pos.value]
               /\ tFault' = NoFault
               /\ Handle("kanban_column_move", <<n, pos>>, target,
                         LAMBDA b : ColumnMove(b, n.value, pos.value))
    /\ UNCHANGED nonToolVars

kanbanArchiveDone ==
    /\ tPc = "idle"
    /\ \E target \in BoardArgs, archiveColumn \in ArchiveArgs :
           /\ tArgs' = [archiveColumn |-> archiveColumn]
           /\ tFault' = NoFault
           /\ Handle("kanban_archive_done", << >>, target,
                     LAMBDA b : ArchiveDone(b, archiveColumn))
    /\ UNCHANGED nonToolVars

kanbanClone ==
    \E sourceBoard \in SourceArgs, targetBoard \in BoardArgs :
        /\ tPc = "idle"
        /\ tArgs' = [sourceBoard |-> sourceBoard, targetBoard |-> targetBoard]
        /\ tFault' = NoFault
        /\ LET sourcePath == resolvePath(sourceBoard) IN
           IF sourcePath.status = "error" THEN Throw("kanban_clone", "path", sourcePath.message)
           ELSE \/ Throw("kanban_clone", "read", "Failed to read kanban file")
                \/ /\ ReadFileAt(tDisk, sourcePath.path).exists
                   /\ LET b == parseKanban(ReadFileAt(tDisk, sourcePath.path).data)
                          targetPath == resolvePath(targetBoard)
                      IN  IF targetPath.status = "error"
                          THEN Throw("kanban_clone", "path", targetPath.message)
                          ELSE WriteKanbanFile("kanban_clone", targetPath.path, b)
        /\ UNCHANGED nonToolVars

\* kanbanMerge's loop from source i on; the read of source `failAt` hits an
\* I/O error (0: none does)
RECURSIVE MergeSources(_, _, _, _)
MergeSources(targetBoard, sourceBoards, i, failAt) ==
    IF i > Len(sourceBoards)
    THEN [ok |-> TRUE, stage |-> None, error |-> None, board |-> targetBoard]
    ELSE LET sourcePath == resolvePath(sourceBoards[i]) IN
         IF sourcePath.status = "error"
         THEN [ok |-> FALSE, stage |-> "path", error |-> sourcePath.message, board |-> targetBoard]
         ELSE IF i = failAt \/ ~ReadFileAt(tDisk, sourcePath.path).exists
         THEN [ok |-> FALSE, stage |-> "read", error |-> "Failed to read kanban file",
               board |-> targetBoard]
         ELSE MergeSources(
                  MergeBoard(targetBoard, parseKanban(ReadFileAt(tDisk, sourcePath.path).data)),
                  sourceBoards, i + 1, failAt)

kanbanMerge ==
    \E targetBoard \in BoardArgs, sourceBoards \in SeqsUpTo(SourceArgs, MaxSources),
       failAt \in 0..MaxSources, targetReadable \in BOOLEAN :
        /\ tPc = "idle"
        /\ tArgs' = [targetBoard |-> targetBoard, sourceBoards |-> sourceBoards]
        /\ tFault' = [targetRead |-> ~targetReadable, sourceRead |-> failAt]
        /\ IF sourceBoards = << >>
           THEN Throw("kanban_merge", "arguments", "At least one source board is required")
           ELSE LET targetPath == resolvePath(targetBoard) IN
                IF targetPath.status = "error"
                THEN Throw("kanban_merge", "path", targetPath.message)
                ELSE LET f == ReadFileAt(tDisk, targetPath.path)
                         target == IF f.exists /\ targetReadable THEN parseKanban(f.data)
                                   ELSE Board(Settings("basic"), << >>)
                         r == MergeSources(target, sourceBoards, 1, failAt)
                     IN  IF ~r.ok THEN Throw("kanban_merge", r.stage, r.error)
                         ELSE WriteKanbanFile("kanban_merge", targetPath.path, r.board)
        /\ UNCHANGED nonToolVars

CreateNames == {<<"A">>, <<SP, "A">>, <<"A", NL, "B">>}

\* access(boardPath) is taken to succeed exactly when the file exists
kanbanCreate ==
    \E path \in BoardArgs, columns \in SeqsUpTo(CreateNames, MaxCols), settings \in SettingsArgs :
        /\ tPc = "idle"
        /\ tArgs' = [path |-> path, columns |-> columns, settings |-> settings]
        /\ tFault' = NoFault
        /\ LET names == [i \in 1..Len(columns) |-> ColumnArg(columns[i])] IN
           IF columns = << >>
           THEN Throw("kanban_create", "arguments", "At least one column is required")
           ELSE IF ~AllOk(names) THEN Throw("kanban_create", "arguments", FirstError(names))
           ELSE IF settings # Undefined /\ settings[1].plugin \notin Plugins
           THEN Throw("kanban_create", "arguments", "Invalid enum value")
           ELSE LET boardPath == resolvePath(path) IN
                IF boardPath.status = "error"
                THEN Throw("kanban_create", "path", boardPath.message)
                ELSE IF ReadFileAt(tDisk, boardPath.path).exists
                THEN Throw("kanban_create", "check", "Board already exists")
                ELSE WriteKanbanFile("kanban_create", boardPath.path,
                         NewBoard(IF settings = Undefined THEN Settings("basic") ELSE settings[1],
                                  [i \in 1..Len(names) |-> names[i].value]))
        /\ UNCHANGED nonToolVars

\* writeKanbanFile: serializeKanban, then writeFile(tempPath, content)
ToolWriteTemp ==
    /\ tPc = "write"
    /\ tSerialized' = tSerialized \cup {tBoard}
    /\ tIssued' = tIssued \cup {"writeFile"}
    /\ \/ /\ tDisk' = [tDisk EXCEPT ![TempOf(tPath)] = File(serializeKanban(tBoard))]
          /\ tPc' = "rename"
       \/ /\ tDisk' \in {tDisk, [tDisk EXCEPT ![TempOf(tPath)] = File(<< >>)]}
          /\ tPc' = "cleanup"
    /\ UNCHANGED <<tBefore, tResolved, tTool, tPath, tBoard, tError, tArgs, tFault>>
    /\ UNCHANGED nonToolVars

\* rename(tempPath, path)
ToolRename ==
    /\ tPc = "rename"
    /\ tIssued' = tIssued \cup {"rename"}
    /\ \/ /\ tDisk' = [tDisk EXCEPT ![tPath] = tDisk[TempOf(tPath)], ![TempOf(tPath)] = Absent]
          /\ tPc' = "done"
       \/ /\ tDisk' = tDisk
          /\ tPc' = "cleanup"
    /\ UNCHANGED <<tBefore, tResolved, tTool, tPath, tBoard, tError, tSerialized, tArgs, tFault>>
    /\ UNCHANGED nonToolVars

\* catch: unlink(tempPath), its failure ignored; then the error is rethrown
ToolCleanup ==
    /\ tPc = "cleanup"
    /\ tIssued' = tIssued \cup {"unlink"}
    /\ tDisk' \in {tDisk, [tDisk EXCEPT ![TempOf(tPath)] = Absent]}
    /\ tPc' = "failed"
    /\ tError' = [stage |-> "write", message |-> "Failed to write kanban file"]
    /\ UNCHANGED <<tBefore, tResolved, tTool, tPath, tBoard, tSerialized, tArgs, tFault>>
    /\ UNCHANGED nonToolVars

\* Boards a tool has written before, and files edited by hand: an empty
\* file, one with an item without text, a repeated column and a control
\* character, one whose repeated column holds the same item text twice, and
\* one with a second key in its front matter
SeedBoards ==
    {Board(Settings("basic"), << >>),
     Board(Settings("basic"),
           <<Column(<<"A">>, <<Item(<<"t">>, FALSE), Item(<<"u">>, TRUE), Item(<<"w">>, FALSE)>>),
             Column(<<"B">>, << >>)>>),
     Board(Settings("advanced"),
           <<Column(<<"A">>, <<Item(<<"t">>, TRUE), Item(<<"t">>, FALSE)>>),
             Column(<<"B">>, <<Item(<<"u">>, TRUE)>>),
             Column(<<"Archive">>, <<Item(<<"u">>, FALSE)>>)>>)}
HandEdited ==
    {<< >>,
     JoinWith(<< <<"#", "#", SP, "A">>, <<"-", SP, "[", SP, "]", SP>>,
                 <<"#", "#", SP, "A">>, <<"-", SP, "[", "x", "]", SP, "t", BEL>> >>, NL),
     JoinWith(<< <<"#", "#", SP, "A">>, <<"-", SP, "[", SP, "]", SP, "t">>,
                 <<"#", "#", SP, "B">>, <<"-", SP, "[", SP, "]", SP, "u">>,
                 <<"#", "#", SP, "A">>, <<"-", SP, "[", "x", "]", SP, "t">>,
                 <<"-", SP, "[", SP, "]", SP, "u">> >>, NL),
     JoinWith(<< Dashes, <<PluginKey, ":", SP, "advanced">>, <<"lane-width", ":", SP, "300">>,
                 Dashes, <<"#", "#", SP, "A">>, <<"-", SP, "[", SP, "]", SP, "t">>,
                 <<"-", SP, "[", "x", "]", SP, "u">> >>, NL)}
\* The board in OtherFile
OtherBoard ==
    Board(Settings("advanced"),
          <<Column(<<"A">>, <<Item(<<"t">>, FALSE), Item(<<"x">>, TRUE)>>),
            Column(<<"C">>, <<Item(<<"t">>, FALSE)>>)>>)
InitialDocs == {serializeKanban(b) : b \in SeedBoards} \cup HandEdited
StaleTempFiles == {Absent, File(<<"stale">>)}
NoError == [stage |-> None, message |-> None]

InitTools ==
    /\ RaceIdle /\ ValidatorsIdle
    /\ \E doc \in InitialDocs, stale \in StaleTempFiles :
          tDisk = [p \in DiskPaths |->
                      IF p = BoardFile THEN File(doc)
                      ELSE IF p = TempOf(BoardFile) THEN stale
                      ELSE IF p = OtherFile THEN File(serializeKanban(OtherBoard))
                      ELSE Absent]
    /\ tBefore = tDisk
    /\ tResolved = ResolvedPaths
    /\ tTool = None
    /\ tPc = "idle"
    /\ tPath = << >>
    /\ tBoard = << >>
    /\ tError = NoError
    /\ tIssued = {}
    /\ tSerialized = {}
    /\ tArgs = << >>
    /\ tFault = NoFault
    /\ FsIdle /\ PathIdle /\ CodecIdle

ToolStep ==
    \/ kanbanCreate
    \/ kanbanItemAdd \/ kanbanItemRemove \/ kanbanItemMove
    \/ kanbanItemUpdate \/ kanbanItemComplete \/ kanbanItemReorder
    \/ kanbanColumnAdd \/ kanbanColumnRemove \/ kanbanColumnRename \/ kanbanColumnMove
    \/ kanbanClone \/ kanbanMerge \/ kanbanArchiveDone
    \/ ToolWriteTemp \/ ToolRename \/ ToolCleanup

SpecTools == InitTools /\ [][ToolStep]_vars

(***************************************************************************)
(* Claims about the tools                                                  *)
(***************************************************************************)
MutationTools ==
    {"kanban_item_add", "kanban_item_remove", "kanban_item_move", "kanban_item_update",
     "kanban_item_complete", "kanban_item_reorder", "kanban_column_add",
     "kanban_column_remove", "kanban_column_rename", "kanban_column_move",
     "kanban_clone", "kanban_merge", "kanban_archive_done"}

\* C5: when an item, column or bulk tool returns an error raised by argument
\* validation, path resolution, read/parse or one of its lookup, bounds and
\* conflict checks, it has issued no writeFile, rename or unlink, and every file
\* is as it was before the call.
C5_EarlyErrorsLeaveDiskUntouched ==
    (tPc = "failed" /\ tTool \in MutationTools
        /\ tError.stage \in {"arguments", "path", "read", "check"})
        => (tIssued = {} /\ tDisk = tBefore)

\* kanbanColumnRemove has refused to move a column's items into itself
C5_Witness ==
    /\ tPc = "failed"
    /\ tTool = "kanban_column_remove"
    /\ tError = [stage |-> "check",
                 message |-> "Cannot move items to the same column being removed"]
    /\ tIssued = {} /\ tDisk = tBefore

\* C6: every column name and item text of every Board passed to
\* serializeKanban, by any tool, satisfies validateColumnName / validateItemText.
C6_SerializedTextSatisfiesValidators ==
    \A b \in tSerialized : SatisfiesValidators(b)

(***************************************************************************)
(* Claims about what the tools do to the Board                             *)
(***************************************************************************)
\* The Board readKanbanFile gave the handler: the board file as the call found it
BoardBefore == parseKanban(tBefore[BoardFile].data)
\* The Board now in the file the call wrote
BoardOnDisk == parseKanban(tDisk[tPath].data)
\* The call has returned after writeKanbanFile replaced the file
Wrote(tool) == tTool = tool /\ tPc = "done" /\ "rename" \in tIssued
\* The handler's checks passed and it called writeKanbanFile with tBoard
Accepted(tool) == tTool = tool /\ tBoard # << >>
\* The call threw in one of the handler's own lookup, bounds and conflict checks
Refused(tool) == tTool = tool /\ tPc = "failed" /\ tError.stage = "check"

Names(columns) == [i \in 1..Len(columns) |-> columns[i].name]
Distinct(seq) == \A i, j \in 1..Len(seq) : seq[i] = seq[j] => i = j

\* C11: every board written by kanban_create, kanban_column_add,
\* kanban_column_rename, kanban_merge or kanban_archive_done has pairwise
\* distinct column names, and so has the board read back from the written file.
C11_WrittenColumnNamesDistinct ==
    \A tool \in {"kanban_create", "kanban_column_add", "kanban_column_rename",
                  "kanban_merge", "kanban_archive_done"} :
        Wrote(tool) => (Distinct(Names(tBoard.columns)) /\ Distinct(Names(BoardOnDisk.columns)))

\* A sequence without its k-th element
Without(seq, k) == [i \in 1..(Len(seq) - 1) |-> IF i < k THEN seq[i] ELSE seq[i + 1]]
\* Index of the first element that passes, 0 when none does
First(seq, Test(_)) ==
    IF \E i \in 1..Len(seq) : Test(seq[i])
    THEN CHOOSE i \in 1..Len(seq) : Test(seq[i]) /\ \A j \in 1..(i - 1) : ~Test(seq[j])
    ELSE 0
FirstColumn(b, name) == First(b.columns, LAMBDA c : c.name = name)
FirstItem(b, c, text) == First(b.columns[c].items, LAMBDA i : i.text = text)
RECURSIVE SumLen(_)
SumLen(columns) ==
    IF columns = << >> THEN 0 ELSE Len(Head(columns).items) + SumLen(Tail(columns))
\* Every column but those at the indexes in `touched` is as it was
OthersUnchanged(b, a, touched) ==
    /\ Len(a.columns) = Len(b.columns)
    /\ Names(a.columns) = Names(b.columns)
    /\ \A i \in 1..Len(b.columns) : i \notin touched => a.columns[i] = b.columns[i]

\* C12: after a successful kanban_item_move the source column has lost exactly
\* the first item whose text matched, the target column has that item, text and
\* completed flag unchanged, appended at its end, every other item keeps its
\* column and order, and the board holds as many items as before; with source
\* and target the same column the item ends last in it, once.
C12_MoveTransfersOwnership ==
    Wrote("kanban_item_move") =>
        LET b == BoardBefore
            src == FirstColumn(b, tArgs.sourceColumn)
            tgt == FirstColumn(b, tArgs.targetColumn)
            k == FirstItem(b, src, tArgs.text)
            item == b.columns[src].items[k]
        IN  /\ src > 0 /\ tgt > 0 /\ k > 0
            /\ OthersUnchanged(b, tBoard, {src, tgt})
            /\ SumLen(tBoard.columns) = SumLen(b.columns)
            /\ IF src = tgt
               THEN tBoard.columns[src].items = Append(Without(b.columns[src].items, k), item)
               ELSE /\ tBoard.columns[src].items = Without(b.columns[src].items, k)
                    /\ tBoard.columns[tgt].items = Append(b.columns[tgt].items, item)

\* An item moved out of a column that held two items of that text into a
\* column that already held an item
C12_Witness ==
    /\ Wrote("kanban_item_move")
    /\ LET b == BoardBefore
           src == FirstColumn(b, tArgs.sourceColumn)
           tgt == FirstColumn(b, tArgs.targetColumn)
       IN  /\ src # tgt
           /\ Len(SelectSeq(b.columns[src].items, LAMBDA i : i.text = tArgs.text)) = 2
           /\ Len(b.columns[tgt].items) > 0
           /\ Len(tBoard.columns[tgt].items) = Len(b.columns[tgt].items) + 1

ItemTools ==
    {"kanban_item_remove", "kanban_item_move", "kanban_item_update",
     "kanban_item_complete", "kanban_item_reorder"}
\* The column and text arguments by which an item tool looks its item up
LookupColumn == IF tTool = "kanban_item_move" THEN tArgs.sourceColumn ELSE tArgs.column
LookupText == IF tTool = "kanban_item_update" THEN tArgs.oldText ELSE tArgs.text
\* The board before the call repeats the looked-up column name, or the
\* looked-up text within the first column of that name
HasDuplicates(b) ==
    \/ Len(SelectSeq(b.columns, LAMBDA c : c.name = LookupColumn)) > 1
    \/ /\ FirstColumn(b, LookupColumn) > 0
       /\ Len(SelectSeq(b.columns[FirstColumn(b, LookupColumn)].items,
                        LAMBDA i : i.text = LookupText)) > 1

\* C13: kanban_item_remove, _move, _update, _complete and _reorder act on the
\* first column of the given name and on the first item of the given text in
\* it; every other column and every other item of that column, later duplicates
\* included, stays as it was and in its order; and a duplicate is no error: the
\* handler refuses only when the first matching column or the item in it is
\* missing.
C13_FirstMatchInDocumentOrder ==
    /\ \A tool \in ItemTools : Wrote(tool) =>
           LET b == BoardBefore
               c == FirstColumn(b, LookupColumn)
               k == FirstItem(b, c, LookupText)
               old == b.columns[c].items
               new == tBoard.columns[c].items
               tgt == IF tool = "kanban_item_move" THEN FirstColumn(b, tArgs.targetColumn) ELSE c
           IN  /\ c > 0 /\ k > 0
               /\ OthersUnchanged(b, tBoard, {c, tgt})
               /\ CASE tool = "kanban_item_remove" -> new = Without(old, k)
                    [] tool = "kanban_item_update" -> new = [old EXCEPT ![k].text = tArgs.newText]
                    [] tool = "kanban_item_complete" ->
                           /\ new = [old EXCEPT ![k].completed = new[k].completed]
                           /\ new[k].completed =
                                  IF tArgs.completed = Undefined THEN ~old[k].completed
                                  ELSE tArgs.completed[1]
                    [] tool = "kanban_item_reorder" ->
                           \E p \in 1..Len(old) : new[p] = old[k] /\ Without(new, p) = Without(old, k)
                    [] tool = "kanban_item_move" ->
                           IF tgt = c THEN new = Append(Without(old, k), old[k])
                           ELSE /\ new = Without(old, k)
                                /\ tBoard.columns[tgt].items = Append(b.columns[tgt].items, old[k])
    /\ \A tool \in ItemTools : Refused(tool) =>
           LET b == BoardBefore
               c == FirstColumn(b, LookupColumn)
           IN  \/ c = 0
               \/ FirstItem(b, c, LookupText) = 0
               \/ tool = "kanban_item_move" /\ FirstColumn(b, tArgs.targetColumn) = 0

\* kanban_item_update has changed an item of a board that repeats both the
\* column name and, in a later column, the item text
C13_Witness ==
    /\ Wrote("kanban_item_update")
    /\ LET b == BoardBefore
           c == FirstColumn(b, tArgs.column)
       IN  /\ \E d \in (c + 1)..Len(b.columns) :
                 /\ b.columns[d].name = tArgs.column
                 /\ \E i \in 1..Len(b.columns[d].items) : b.columns[d].items[i].text = tArgs.oldText
                 /\ tBoard.columns[d] = b.columns[d]
           /\ tBoard.columns[c] # b.columns[c]

\* C14: kanban_item_reorder on a column of n items takes the first matching
\* item out and puts it back at index min(max(position, 0), n - 1), the clamp
\* bound being the column's length after the removal, so that every position
\* >= n - 1 places it last; the other n - 1 items keep their order and the column
\* still has n items.
C14_ReorderClampsAfterRemoval ==
    Wrote("kanban_item_reorder") =>
        LET b == BoardBefore
            c == FirstColumn(b, tArgs.column)
            old == b.columns[c].items
            new == tBoard.columns[c].items
            k == FirstItem(b, c, tArgs.text)
            n == Len(old)
            low == IF tArgs.position > 0 THEN tArgs.position ELSE 0
            at == IF low < n - 1 THEN low ELSE n - 1
        IN  /\ Len(new) = n
            /\ new[at + 1] = old[k]
            /\ Without(new, at + 1) = Without(old, k)
            /\ tArgs.position >= n - 1 => new[n] = old[k]
            /\ OthersUnchanged(b, tBoard, {c})

\* The first of three items has been sent to a position beyond the column's
\* end and is now its last item, behind the two others
C14_Witness ==
    /\ Wrote("kanban_item_reorder")
    /\ LET b == BoardBefore
           c == FirstColumn(b, tArgs.column)
           old == b.columns[c].items
           new == tBoard.columns[c].items
       IN  /\ Len(old) = 3
           /\ FirstItem(b, c, tArgs.text) = 1
           /\ tArgs.position > 2
           /\ new = <<old[2], old[3], old[1]>>

\* C15: kanban_column_add on a board of k columns fails when a column of that
\* name exists, fails with an out-of-bounds error when position > k, and
\* otherwise inserts a new empty column at index position (k when position is
\* left out), the columns before and from that index on keeping their order.
C15_AddColumnAtPosition ==
    LET b == BoardBefore
        k == Len(b.columns)
        name == tArgs.name
        at == IF tArgs.position = Undefined THEN k ELSE tArgs.position[1]
        exists == \E i \in 1..k : b.columns[i].name = name
    IN  /\ Accepted("kanban_column_add") =>
               /\ ~exists /\ at <= k
               /\ tBoard.columns =
                      [i \in 1..(k + 1) |->
                          IF i <= at THEN b.columns[i]
                          ELSE IF i = at + 1 THEN [name |-> name, items |-> << >>]
                          ELSE b.columns[i - 1]]
        /\ Refused("kanban_column_add") =>
               /\ exists \/ at > k
               /\ exists => tError.message = "Column already exists"
               /\ ~exists => tError.message = "Position is out of bounds"

\* A column has been added at index 1 of a board of three columns
C15_Witness ==
    /\ Wrote("kanban_column_add")
    /\ Len(BoardBefore.columns) = 3
    /\ tArgs.position = Some(1)
    /\ Names(tBoard.columns) =
           <<BoardBefore.columns[1].name, tArgs.name,
             BoardBefore.columns[2].name, BoardBefore.columns[3].name>>

\* kanban_column_remove without targetColumn, called on the file as it is now
ThenColumnRemove(name) == ColumnRemove(BoardOnDisk, name, Undefined)

TargetSupplied == tArgs.targetColumn \notin {Undefined, Some(<< >>)}
\* The cases in which kanban_column_remove is to fail
MustRefuseRemove(b) ==
    LET c == FirstColumn(b, tArgs.name) IN
    \/ c = 0
    \/ TargetSupplied /\ tArgs.targetColumn[1] = tArgs.name
    \/ TargetSupplied /\ FirstColumn(b, tArgs.targetColumn[1]) = 0
    \/ c > 0 /\ Len(b.columns[c].items) > 0 /\ ~TargetSupplied

\* C17: kanban_column_remove fails and leaves the board unchanged when `name`
\* is not on the board, when a targetColumn is supplied that equals `name` or
\* names no column of the board, whether or not the column holds items, and
\* when the column holds items and no targetColumn is supplied.
C17_RemoveColumnRefusals ==
    /\ Accepted("kanban_column_remove") => ~MustRefuseRemove(BoardBefore)
    /\ Refused("kanban_column_remove") => (tIssued = {} /\ tDisk = tBefore)

\* C18: a successful kanban_column_remove of a column that holds items leaves
\* the target column with its own items followed by the removed column's items
\* in their order, takes out exactly the column `name`, and leaves every other
\* column's items and the order of the remaining columns as they were.
C18_RemoveColumnMovesItemsToTarget ==
    LET b == BoardBefore
        c == FirstColumn(b, tArgs.name)
    IN  (Wrote("kanban_column_remove") /\ Len(b.columns[c].items) > 0) =>
            LET t == FirstColumn(b, tArgs.targetColumn[1])
                moved == [i \in 1..Len(b.columns) |->
                             IF i = t
                             THEN [name |-> b.columns[t].name,
                                   items |-> b.columns[t].items \o b.columns[c].items]
                             ELSE b.columns[i]]
            IN  /\ TargetSupplied /\ t > 0 /\ t # c
                /\ tBoard.columns = Without(moved, c)

\* A column of two items was removed into a column that held an item, with a
\* third column left over
C18_Witness ==
    /\ Wrote("kanban_column_remove")
    /\ LET b == BoardBefore
           c == FirstColumn(b, tArgs.name)
           t == FirstColumn(b, tArgs.targetColumn[1])
       IN  /\ Len(b.columns) = 3
           /\ Len(b.columns[c].items) = 2
           /\ TargetSupplied /\ t > 0
           /\ Len(b.columns[t].items) = 1
           /\ Len(tBoard.columns) = 2
           /\ \E i \in 1..2 : tBoard.columns[i].items = b.columns[t].items \o b.columns[c].items

\* C19: kanban_column_rename fails when oldName is absent, fails with a
\* conflict whenever some column carries newName already (newName = oldName
\* included), and otherwise changes only the name of the first column called
\* oldName: its index, its items and all other columns stay as they were.
C19_RenameColumnInPlace ==
    LET b == BoardBefore
        c == FirstColumn(b, tArgs.oldName)
        taken == FirstColumn(b, tArgs.newName) > 0
    IN  /\ Accepted("kanban_column_rename") =>
               /\ c > 0 /\ ~taken
               /\ tBoard.columns =
                      [i \in 1..Len(b.columns) |->
                          IF i = c THEN [name |-> tArgs.newName, items |-> b.columns[c].items]
                          ELSE b.columns[i]]
        /\ Refused("kanban_column_rename") =>
               /\ c = 0 \/ taken
               /\ c = 0 => tError.message = "Column not found"
               /\ c > 0 => tError.message = "Column already exists"

\* The second of three columns, holding an item, has got a new name
C19_Witness ==
    /\ Wrote("kanban_column_rename")
    /\ LET b == BoardBefore IN
           /\ Len(b.columns) = 3
           /\ FirstColumn(b, tArgs.oldName) = 2
           /\ Len(b.columns[2].items) > 0
           /\ tBoard.columns[2] = [name |-> tArgs.newName, items |-> b.columns[2].items]
           /\ tBoard.columns[2].name # b.columns[2].name

\* The call has returned success without calling writeKanbanFile
ReturnedEarly(tool) == tTool = tool /\ tPc = "done" /\ tBoard = << >>

\* C20: kanban_column_move on a board of k columns fails when position >= k;
\* when the column is at index position already it returns success with the
\* board unchanged and the file not written; otherwise the column ends at
\* index position, the other k - 1 columns keep their order, and every
\* column's items are unchanged.
C20_MoveColumnToPosition ==
    LET b == BoardBefore
        k == Len(b.columns)
        c == FirstColumn(b, tArgs.name)
        position == tArgs.position
    IN  /\ (Accepted("kanban_column_move") \/ ReturnedEarly("kanban_column_move")) =>
               (c > 0 /\ position < k)
        /\ Refused("kanban_column_move") => (c = 0 \/ position >= k)
        /\ ReturnedEarly("kanban_column_move") =>
               (c - 1 = position /\ tIssued = {} /\ tDisk = tBefore)
        /\ Accepted("kanban_column_move") =>
               /\ c - 1 # position
               /\ Len(tBoard.columns) = k
               /\ tBoard.columns[position + 1] = b.columns[c]
               /\ Without(tBoard.columns, position + 1) = Without(b.columns, c)

\* The first of three columns has been moved to the end
C20_Witness ==
    /\ Wrote("kanban_column_move")
    /\ LET b == BoardBefore IN
           /\ Len(b.columns) = 3
           /\ FirstColumn(b, tArgs.name) = 1
           /\ tArgs.position = 2
           /\ tBoard.columns = <<b.columns[2], b.columns[3], b.columns[1]>>

\* kanban_item_complete with the same arguments, called on the file as it is now
ThenItemComplete == ItemComplete(BoardOnDisk, tArgs.column, tArgs.text, tArgs.completed)

\* C21: kanban_item_complete sets the first matching item's completed flag to
\* the supplied value when `completed` is given, so that repeating the call
\* changes nothing, and flips it when `completed` is left out, so that a second
\* toggle gives back the original board; the item's text and place and all
\* other items are unchanged.
C21_CompleteSetsOrToggles ==
    Wrote("kanban_item_complete") =>
        LET b == BoardBefore
            c == FirstColumn(b, tArgs.column)
            k == FirstItem(b, c, tArgs.text)
            old == b.columns[c].items
            new == tBoard.columns[c].items
            again == ThenItemComplete
        IN  /\ OthersUnchanged(b, tBoard, {c})
            /\ Len(new) = Len(old)
            /\ \A i \in 1..Len(old) : i # k => new[i] = old[i]
            /\ new[k].text = old[k].text
            /\ again.ok
            /\ IF tArgs.completed # Undefined
               THEN /\ new[k].completed = tArgs.completed[1]
                    /\ again.board.columns = tBoard.columns
               ELSE /\ new[k].completed = ~old[k].completed
                    /\ again.board.columns = b.columns

\* The first of two items of one text has been toggled, the other one, whose
\* flag differed, left alone; a second toggle gives the board as it was
C21_Witness ==
    /\ Wrote("kanban_item_complete")
    /\ tArgs.completed = Undefined
    /\ LET b == BoardBefore
           c == FirstColumn(b, tArgs.column)
           old == b.columns[c].items
       IN  /\ FirstItem(b, c, tArgs.text) = 1
           /\ Len(old) = 2 /\ old[2].text = old[1].text /\ old[2].completed # old[1].completed
           /\ tBoard.columns[c].items[1].completed = ~old[1].completed
           /\ ThenItemComplete.board.columns = b.columns

\* The name kanban_archive_done archives under: the argument, 'Archive' by default
ArchiveColumnName ==
    IF tArgs.archiveColumn \in {Undefined, Some(<< >>)} THEN <<"Archive">>
    ELSE tArgs.archiveColumn[1]
\* The completed items of the columns from index i on, the a-th left out
RECURSIVE CompletedFrom(_, _, _)
CompletedFrom(columns, a, i) ==
    IF i > Len(columns) THEN << >>
    ELSE (IF i = a THEN << >> ELSE SelectSeq(columns[i].items, LAMBDA it : it.completed))
         \o CompletedFrom(columns, a, i + 1)

MergeStart ==
    LET f == ReadFileAt(tBefore, tPath) IN
    IF f.exists /\ ~tFault.targetRead THEN parseKanban(f.data)
    ELSE Board(Settings("basic"), << >>)

\* The source boards as the call read them, in the order of the argument
SourcesRead(disk) ==
    [i \in 1..Len(tArgs.sourceBoards) |->
        parseKanban(ReadFileAt(disk, resolvePath(tArgs.sourceBoards[i]).path).data)]

RECURSIVE Flatten(_)
\* The concatenation of a sequence of sequences
Flatten(seqs) == IF seqs = << >> THEN << >> ELSE Head(seqs) \o Flatten(Tail(seqs))

\* The columns of the sources, in the order the merge meets them
SourceColumns(sources) == Flatten([i \in 1..Len(sources) |-> sources[i].columns])

\* The items the sources offer to the column `name`, in that order
Offered(sources, name) ==
    LET named == SelectSeq(SourceColumns(sources), LAMBDA c : c.name = name)
    IN  Flatten([i \in 1..Len(named) |-> named[i].items])

RECURSIVE KeepAt(_, _, _)
\* The elements of seq at the indexes in I that are >= i, in order
KeepAt(seq, I, i) ==
    IF i > Len(seq) THEN << >>
    ELSE (IF i \in I THEN <<seq[i]>> ELSE << >>) \o KeepAt(seq, I, i + 1)

\* Of the offered items, those whose text neither `base` nor an earlier
\* offered item carries
NewItems(base, offered) ==
    KeepAt(offered,
           {i \in 1..Len(offered) :
               /\ \A k \in 1..Len(base) : base[k].text # offered[i].text
               /\ \A k \in 1..(i - 1) : offered[k].text # offered[i].text},
           1)

\* The names of the source columns the board `start` has no column for,
\* each once, in the order the merge meets them
NewNames(start, sources) ==
    LET names == Names(SourceColumns(sources))
    IN  KeepAt(names,
               {i \in 1..Len(names) :
                   /\ FirstColumn(start, names[i]) = 0
                   /\ \A k \in 1..(i - 1) : names[k] # names[i]},
               1)

\* What merging `sources` into `start` must give
Merged(start, sources) ==
    LET new == NewNames(start, sources)
        cols == start.columns \o [i \in 1..Len(new) |-> Column(new[i], << >>)]
    IN  [j \in 1..Len(cols) |->
            IF \E k \in 1..(j - 1) : cols[k].name = cols[j].name THEN cols[j]
            ELSE Column(cols[j].name,
                        cols[j].items \o NewItems(cols[j].items, Offered(sources, cols[j].name)))]

\* The same merge once more, on the files as they are now
ThenMerge == MergeSources(BoardOnDisk, tArgs.sourceBoards, 1, 0)

\* C23: kanban_merge takes the sources in order and, for each source
\* column in order, finds the first target column of that name or appends
\* an empty one, then appends exactly the source items whose text that
\* column does not hold at that moment; the settings stay the target's;
\* merging the same sources once more into the written board changes
\* nothing.
C23_MergeAppendsNewTexts ==
    /\ Accepted("kanban_merge") =>
           /\ tBoard.columns = Merged(MergeStart, SourcesRead(tBefore))
           /\ tBoard.settings = MergeStart.settings
    /\ Wrote("kanban_merge") =>
           /\ ThenMerge.ok
           /\ ThenMerge.board.columns = BoardOnDisk.columns

\* Two different sources that both have a column A holding an item t are
\* merged into a board that did not exist: one column A, one item t
C23_Witness ==
    /\ Wrote("kanban_merge")
    /\ ~ReadFileAt(tBefore, tPath).exists
    /\ Len(tArgs.sourceBoards) = 2
    /\ tArgs.sourceBoards[1] # tArgs.sourceBoards[2]
    /\ \A i \in 1..2 :
          LET src == SourcesRead(tBefore)[i]
              a == FirstColumn(src, <<"A">>)
          IN  a # 0 /\ FirstItem(src, a, <<"t">>) # 0
    /\ Len(SelectSeq(BoardOnDisk.columns, LAMBDA c : c.name = <<"A">>)) = 1
    /\ LET a == FirstColumn(BoardOnDisk, <<"A">>)
       IN  /\ Len(SelectSeq(BoardOnDisk.columns[a].items, LAMBDA i : i.text = <<"t">>)) = 1
           /\ Len(BoardOnDisk.columns[a].items) > 2

\* The target file of the merge exists and reading it failed
TargetReadFailed ==
    /\ tTool = "kanban_merge"
    /\ tFault.targetRead
    /\ resolvePath(tArgs.targetBoard).status = "ok"
    /\ ReadFileAt(tBefore, resolvePath(tArgs.targetBoard).path).exists

\* The call is over
Finished == tPc \in {"done", "failed"}

\* C24: a kanban_merge whose existing target cannot be read, or one of whose
\* sources fails path resolution or reading, fails, and no file is replaced or
\* created; whenever the call fails before the write, every file is as it was.
C24_MergeFailureLeavesTarget ==
    /\ (Finished /\ TargetReadFailed) => (tPc = "failed" /\ tDisk = tBefore)
    /\ (tTool = "kanban_merge" /\ tPc = "failed" /\ tError.stage \in {"arguments", "path", "read"})
          => (tIssued = {} /\ tDisk = tBefore)

(***************************************************************************)
(* kanban_clone                                                            *)
(***************************************************************************)
\* The file kanbanClone read
CloneSourcePath == resolvePath(tArgs.sourceBoard).path

\* C26: after a successful kanban_clone, reading the target file gives the
\* columns, the items (text and completed) and the settings mapping that
\* reading the source file gives, the board was written under the target
\* path, and the source file is as it was.
C26_CloneReadsBackEqual ==
    Wrote("kanban_clone") =>
        LET source == parseKanban(ReadFileAt(tBefore, CloneSourcePath).data)
            target == parseKanban(ReadFileAt(tDisk, tPath).data)
        IN  /\ target.columns = source.columns
            /\ target.settings = source.settings
            /\ tPath = resolvePath(tArgs.targetBoard).path
            /\ ReadFileAt(tDisk, CloneSourcePath) = ReadFileAt(tBefore, CloneSourcePath)

(***************************************************************************)
(* Settings across a write                                                 *)
(***************************************************************************)
\* The tools that read the board file, change the board and write it back
InPlaceTools == MutationTools \ {"kanban_clone", "kanban_merge"}

\* C28: whatever keys parseKanban took from the front matter, the board read
\* back after a successful write has the settings {kanban-plugin: v} and no
\* other key, where v is the value the written board carried; for a tool
\* that changes an existing board, v is the value read before the write.
C28_OnlyPluginKeySurvives ==
    (tPc = "done" /\ "rename" \in tIssued) =>
        /\ BoardOnDisk.settings = [plugin |-> tBoard.settings.plugin, extra |-> << >>]
        /\ tTool \in InPlaceTools => tBoard.settings = BoardBefore.settings

\* A board whose front matter carried a second key has been changed and
\* written: the key is in the settings block of the file, not in what is read
C28_Witness ==
    /\ tTool \in InPlaceTools
    /\ tPc = "done" /\ "rename" \in tIssued
    /\ BoardBefore.settings = [plugin |-> "advanced", extra |-> << <<"lane-width", "300">> >>]
    /\ tBoard.settings = BoardBefore.settings
    /\ BoardOnDisk.settings = Settings("advanced")

(***************************************************************************)
(* Conservation of items                                                   *)
(***************************************************************************)
\* The items of a board, column after column
AllItems(b) == Flatten([i \in 1..Len(b.columns) |-> b.columns[i].items])
FlagAndText(item) == <<item.text, item.completed>>
Count(items, x) == Len(SelectSeq(items, LAMBDA i : FlagAndText(i) = x))
\* Two boards hold the same (text, completed) pairs, each as many times
SameItems(a, b) ==
    /\ Len(AllItems(a)) = Len(AllItems(b))
    /\ \A i \in 1..Len(AllItems(a)) :
          Count(AllItems(a), FlagAndText(AllItems(a)[i]))
              = Count(AllItems(b), FlagAndText(AllItems(a)[i]))

ConservingTools ==
    {"kanban_item_move", "kanban_item_reorder", "kanban_column_add", "kanban_column_rename",
     "kanban_column_move", "kanban_column_remove", "kanban_archive_done"}

Creators == {w \in Callers : kind[w] = "create"}
Over == \A w \in Callers : pc[w] \in {"done", "failed"}

\* C25: kanban_create does not replace an existing board: with a file at the
\* path the call fails with 'already exists' and the file stays as it was;
\* of concurrent kanban_create calls for one path at most one succeeds, and
\* the file is then the one that call wrote (no I/O fault occurring).
C25_CreateNeverReplaces ==
    (faults = 0 /\ Creators = Callers) =>
        /\ initial # Absent =>
              /\ ContentAt("path") = initial
              /\ \A w \in Callers : pc[w] \in {"start", "failed"}
              /\ \A w \in Callers : pc[w] = "failed" => thrown[w] = AlreadyExists
        /\ Cardinality({w \in Callers : pc[w] = "done"}) <= 1
        /\ Over => \A w \in Callers :
                      pc[w] = "done" => ContentAt("path") = File(serializeChunks(board[w]))

(***************************************************************************)
(* Claims about the validators                                             *)
(***************************************************************************)
\* Code units below 32 other than tab, line feed and carriage return
OtherControls(s) == \E i \in 1..Len(s) : s[i] \in ControlChars \ {TAB, NL, CR}

ItemTextAcceptable(s) ==
    /\ ~Has(s, NUL)
    /\ ~OtherControls(s)
    /\ trim(s) # << >>
    /\ NoneIn(trim(s), {NL, CR})
    /\ length(trim(s)) <= MAX_ITEM_TEXT_LENGTH

ColumnNameAcceptable(s) ==
    /\ ~Has(s, NUL)
    /\ NoneIn(s, {NL, CR})
    /\ ~OtherControls(s)
    /\ trim(s) # << >>
    /\ length(trim(s)) <= MAX_COLUMN_NAME_LENGTH

Done(result) == result # NotCalled

RaceTargets == {<<"f">>, <<"g">>, <<"d", Slash, "f">>, <<"e", Slash, "f">>}

TempEntry == << <<"v">>, <<"f", ".tmp">> >>
\* The replacements tried: the board file, its temp entry or the directory
\* becomes a link that leaves the vault, or the board file a link inside it
Swaps ==
    {[entry |-> << <<"v">>, <<"f">> >>, to |-> << <<"o">>, <<"f">> >>],
     [entry |-> TempEntry, to |-> << <<"o">>, <<"f">> >>],
     [entry |-> << <<"v">>, <<"d">> >>, to |-> << <<"o">> >>],
     [entry |-> << <<"v">>, <<"f">> >>, to |-> << <<"v">>, <<"g">> >>]}

\* Where the path leads, every symbolic link followed; with `mustExist`
\* a missing entry is an error (ENOENT), without it the entry is created
Locate(path, mustExist) ==
    LET r == resolveParts("posix", <<path>>, <<Slash>>)
    IN  Walk("posix", r.dev, << >>, r.comps, MaxLinkHops, mustExist)

\* The directory entry the path names: the links of its directories
\* followed, its last component taken as it is
EntryOf(path) ==
    LET r == resolveParts("posix", <<path>>, <<Slash>>)
        w == Walk("posix", r.dev, << >>, Front(r.comps), MaxLinkHops, TRUE)
    IN  [ok |-> w.ok, comps |-> w.comps \o <<r.comps[Len(r.comps)]>>]

Touch(op, at) == rTouched' = rTouched \cup {[op |-> op, at |-> at]}
RaceFail == rPc' = "failed" /\ UNCHANGED <<rPath, rTouched>>

InitRace ==
    /\ rTarget \in RaceTargets
    /\ rPc = "start"
    /\ rPath = << >>
    /\ rSwap = NoSwap
    /\ rWhen = None
    /\ rTouched = {}
    /\ ValidatorsIdle /\ FsIdle /\ PathIdle /\ CodecIdle /\ ToolsIdle

\* The other actor replaces a directory entry, once
SwapEntry ==
    /\ rPc \in {"start", "validated", "read", "written"}
    /\ rSwap = NoSwap
    /\ rSwap' \in Swaps
    /\ rWhen' = rPc
    /\ UNCHANGED <<rTarget, rPc, rPath, rTouched>>
    /\ UNCHANGED nonRaceVars

\* const boardPath = await validateVaultPath(validated.vault, validated.board)
RaceValidate ==
    /\ rPc = "start"
    /\ LET r == validateVaultPath("posix", <<Slash>>, Vault, rTarget) IN
       IF r.status = "error" THEN RaceFail
       ELSE rPath' = r.path /\ rPc' = "validated" /\ UNCHANGED rTouched
    /\ UNCHANGED <<rTarget, rSwap, rWhen>>
    /\ UNCHANGED nonRaceVars

\* readFile(path, 'utf-8')
RaceRead ==
    /\ rPc = "validated"
    /\ LET w == Locate(rPath, TRUE) IN
       IF ~w.ok THEN RaceFail
       ELSE Touch("readFile", w.comps) /\ rPc' = "read" /\ UNCHANGED rPath
    /\ UNCHANGED <<rTarget, rSwap, rWhen>>
    /\ UNCHANGED nonRaceVars

\* writeFile(tempPath, content, 'utf-8')
RaceWriteTemp ==
    /\ rPc = "read"
    /\ LET w == Locate(TempOf(rPath), FALSE) IN
       IF ~w.ok THEN RaceFail
       ELSE Touch("writeFile", w.comps) /\ rPc' = "written" /\ UNCHANGED rPath
    /\ UNCHANGED <<rTarget, rSwap, rWhen>>
    /\ UNCHANGED nonRaceVars

\* Where writeFile put the content
TempWritten == (CHOOSE t \in rTouched : t.op = "writeFile").at

\* rename(tempPath, path): the source entry is there when it is the file
\* writeFile created, or a link put in its place
RaceRename ==
    /\ rPc = "written"
    /\ LET src == EntryOf(TempOf(rPath))
           dst == EntryOf(rPath)
       IN  IF ~src.ok \/ ~dst.ok THEN RaceFail
           ELSE IF src.comps # TempWritten /\ Entry("posix", << >>, src.comps).type = "missing"
           THEN RaceFail
           ELSE Touch("rename", dst.comps) /\ rPc' = "done" /\ UNCHANGED rPath
    /\ UNCHANGED <<rTarget, rSwap, rWhen>>
    /\ UNCHANGED nonRaceVars

RaceStep == SwapEntry \/ RaceValidate \/ RaceRead \/ RaceWriteTemp \/ RaceRename

SpecRace == InitRace /\ [][RaceStep]_vars

\* A location that is not in the vault
Outside(at) == at = << >> \/ at[1] # <<"v">>
Reached(op) == {t.at : t \in {u \in rTouched : u.op = op}}

\* C30: validateVaultPath establishes containment for the moment of the
\* check only.  A call touches a location outside the vault only when a
\* directory entry was replaced, and the board file or a directory of its
\* path only after the check (the temp entry, which is never checked, at
\* any time) and by a link that leaves the vault.  C30_Witness is the run
\* in which the call then reads, writes and renames outside the vault and
\* returns without an error.
C30_EscapeOnlyBySwapAfterCheck ==
    \A t \in rTouched :
        Outside(t.at) =>
            /\ rSwap # NoSwap
            /\ Outside(rSwap.to)
            /\ rSwap.entry # TempEntry => rWhen # "start"

\* The directory of the board was replaced between the check and the read:
\* the call has read the file outside, written the temp file outside and
\* renamed it there, and has returned normally
C30_Witness ==
    /\ rPc = "done"
    /\ rPath = <<Slash, "v", Slash, "d", Slash, "f">>
    /\ rWhen = "validated"
    /\ Reached("readFile") = {<< <<"o">>, <<"f">> >>}
    /\ Reached("writeFile") = {<< <<"o">>, <<"f", ".tmp">> >>}
    /\ Reached("rename") = {<< <<"o">>, <<"f">> >>}

=============================================================================
